---- MODULE Spec2Model ----
(***************************************************************************)
(* State-machine model of the stateful core of the Telegram coding bot:    *)
(*   - SessionManager  (src/session_manager.py)                            *)
(*   - RepoManager     (src/src/utils/repo_manager.py)                     *)
(* Time is counted in seconds.  A Python dict is modelled as a sequence of *)
(* records in insertion order (dicts keep insertion order, and the order   *)
(* decides what _save_sessions writes and which record _load_sessions      *)
(* scans last).                                                            *)
(***************************************************************************)
EXTENDS Integers, Sequences, FiniteSets, TLC

\* ---------------------------------------------------------------- bounds
NumUsers == 2
NumTokens == 2
MaxTicks == 1
MaxFaults == 1
MaxBatch == 1
MaxClones == 1
MaxUrlParts == 5
MaxRequests == 3
MaxOverlap == 2
MaxFile == 3
MaxLines == 3

\* ------------------------------------------------------ program constants
\* timedelta(hours=24), in seconds
IdleExpiry == 86400
\* timedelta(days=7), in seconds
Retention == 604800

Users == 1..NumUsers
\* the values str(uuid.uuid4())[:8] can take
Tokens == 1..NumTokens
\* Python's None, where a token or a session is expected
None == 0
\* the amount by which the k-th advance of the clock moves it: by the idle
\* expiry exactly, then one second past it, then by whole retention windows
ClockStep(k) ==
    IF k = 1 THEN IdleExpiry ELSE IF k = 2 THEN 1 ELSE Retention

VARIABLES
    sessions,       \* self.sessions: token -> Session, in insertion order
    user_sessions,  \* self.user_sessions: user_id -> active token (None: no key)
    disk,           \* the sessions file: [state, data]
    now,            \* datetime.now()
    ticks,          \* number of clock advances so far
    faults,         \* number of failed writes of the sessions file so far
    last,           \* the last operation, its arguments and what it returned
    user_repos,     \* RepoManager.user_repos: user_id -> active repository
    fs,             \* the file system: [dirs, files], sets of absolute paths
    clones,         \* number of directories git clone has created so far
    rlast,          \* the last RepoManager operation and what it returned
    loop            \* the asyncio event loop: its thread and the handlers on it

svars == <<sessions, user_sessions, disk, now, ticks, faults, last>>
mvars == <<user_repos, fs, clones, rlast>>
rvars == <<user_repos, fs, clones, rlast, loop>>
vars == <<sessions, user_sessions, disk, now, ticks, faults, last,
          user_repos, fs, clones, rlast, loop>>

\* ------------------------------------------------------------ dict helpers
Has(ss, t) == \E i \in DOMAIN ss : ss[i].token = t
Idx(ss, t) == CHOOSE i \in DOMAIN ss : ss[i].token = t
Get(ss, t) == ss[Idx(ss, t)]
\* d[key] = value: an existing key keeps its position, a new key goes last
\* mutant of Put: the record is not stored
Put_dropped(ss, rec) == ss

Put(ss, rec) ==
    IF Has(ss, rec.token) THEN [ss EXCEPT ![Idx(ss, rec.token)] = rec]
    ELSE Append(ss, rec)

\* ---------------------------------------------------------- serialization
isoformat(t) == [iso |-> t]
fromisoformat(d) == d.iso

Session(token, user_id, created_at, last_used, is_active) ==
    [token |-> token, user_id |-> user_id, created_at |-> created_at,
     last_used |-> last_used, is_active |-> is_active]

to_dict(s) ==
    [token |-> s.token, user_id |-> s.user_id,
     created_at |-> isoformat(s.created_at),
     last_used |-> isoformat(s.last_used),
     is_active |-> s.is_active]

\* data['token'] etc. raise KeyError on a missing key; is_active defaults to True
DictOk(d) == {"token", "user_id", "created_at", "last_used"} \subseteq DOMAIN d
from_dict(d) ==
    Session(d.token, d.user_id, fromisoformat(d.created_at),
            fromisoformat(d.last_used),
            IF "is_active" \in DOMAIN d THEN d.is_active ELSE TRUE)

\* ------------------------------------------------------------- persistence
NoFile == [state |-> "nofile", data |-> <<>>]
\* the outcomes of _save_sessions: written; open() failed (file untouched);
\* the write failed after open() truncated the file (file left unparsable)
SaveOutcomes == {"ok", "open_failed", "write_failed"}
SaveAllowed(w) == w = "ok" \/ faults < MaxFaults

_save_sessions(ss, w, d) ==
    CASE w = "ok" -> [state |-> "ok", data |-> [i \in DOMAIN ss |-> to_dict(ss[i])]]
      [] w = "open_failed" -> d
      [] OTHER -> [state |-> "corrupt", data |-> <<>>]

FaultsAfter(w) == IF w = "ok" THEN faults ELSE faults + 1
Saved(w) == IF w = "ok" THEN "ok" ELSE "failed"

\* op: the operation; user, token: its arguments (None when it has none);
\* ret: the token of the session it returned, or the count import returned;
\* ok: its boolean result (FALSE for create: it raised); saved: what became of
\* its write of the sessions file; note: the branch it took (for import:
\* "skipped" when it left out a record of the batch)
OpNote(op, user, token, ret, ok, saved, note) ==
    [op |-> op, user |-> user, token |-> token, ret |-> ret, ok |-> ok,
     saved |-> saved, note |-> note]
Op(op, user, token, ret, ok, saved) == OpNote(op, user, token, ret, ok, saved, "")

\* ----------------------------------------------------------- event loop
\* The handlers are coroutines on one event loop thread.  thread: the user
\* whose handler holds the thread (None: the loop is free to pick a task);
\* pc[u]: where the handler of u's request is; req[u]: the command;
\* served: the requests answered so far.  A handler holds the thread from the
\* moment it is picked until it awaits a network call or returns.
LoopIdle ==
    [thread |-> None, pc |-> [u \in Users |-> "idle"],
     req |-> [u \in Users |-> "none"], served |-> 0]

\* RepoManager.__init__: base_repos_dir.mkdir(exist_ok=True), no active repository
RepoInit ==
    /\ user_repos = [u \in {} |-> 0]
    /\ fs = [dirs |-> {<<>>, <<<<"a","p","p">>>>,
                       <<<<"a","p","p">>, <<"r","e","p","o","s">>>>},
             files |-> {}]
    /\ clones = 0
    /\ rlast = [op |-> "init", user |-> 0, success |-> TRUE, kind |-> "",
                has_path |-> FALSE, path |-> [abs |-> FALSE, parts |-> <<>>],
                calls |-> <<>>, none |-> FALSE, entries |-> {}]
    /\ loop = LoopIdle

Init ==
    /\ sessions = <<>>
    /\ user_sessions = [u \in Users |-> None]
    /\ disk = NoFile
    /\ now = 0
    /\ ticks = 0
    /\ faults = 0
    /\ last = Op("init", None, None, None, TRUE, "none")
    /\ RepoInit

\* -------------------------------------------------------------- operations
create_session(user_id, token, mkdir_ok, w) ==
    /\ UNCHANGED rvars
    /\ SaveAllowed(w)
    /\ IF ~mkdir_ok
       THEN \* Path(working_dir).mkdir raises: nothing was stored yet
            /\ last' = OpNote("create", user_id, None, None, FALSE, "none", "raised")
            /\ UNCHANGED <<sessions, user_sessions, disk, now, ticks, faults>>
       ELSE /\ sessions' = Put(sessions, Session(token, user_id, now, now, TRUE))
            /\ user_sessions' = [user_sessions EXCEPT ![user_id] = token]
            /\ disk' = _save_sessions(sessions', w, disk)
            /\ faults' = FaultsAfter(w)
            /\ last' = Op("create", user_id, token, token, TRUE, Saved(w))
            /\ UNCHANGED <<now, ticks>>

\* what get_user_active_session returns in the current state (None or a token)
ActiveOf(ss, us, user_id) ==
    IF us[user_id] # None /\ Has(ss, us[user_id]) /\ Get(ss, us[user_id]).is_active
    THEN us[user_id] ELSE None

\* mutant of HealedMapping: the stale entry is never removed
HealedMapping_kept(ss, us, user_id) == us

\* the else branch: self.user_sessions.pop(user_id, None)
HealedMapping(ss, us, user_id) ==
    IF us[user_id] # None /\ ActiveOf(ss, us, user_id) = None
    THEN [us EXCEPT ![user_id] = None] ELSE us

get_user_active_session(user_id) ==
    /\ UNCHANGED rvars
    /\ user_sessions' = HealedMapping(sessions, user_sessions, user_id)
    /\ last' = OpNote("get_active", user_id, None,
                      ActiveOf(sessions, user_sessions, user_id), TRUE, "none",
                      IF user_sessions' # user_sessions THEN "healed" ELSE "")
    /\ UNCHANGED <<sessions, disk, now, ticks, faults>>

\* mutant of Accepts: the owner of the session is not compared
Accepts_anyone(ss, token, user_id) ==
    /\ Has(ss, token)
    /\ Get(ss, token).is_active

\* mutant of Fresh: a session used exactly 24h ago still counts as fresh
Fresh_inclusive(s, t) == t - s.last_used <= IdleExpiry

\* datetime.now() - session.last_used < timedelta(hours=24)
Fresh(s, t) == t - s.last_used < IdleExpiry

Accepts(ss, token, user_id) ==
    /\ Has(ss, token)
    /\ Get(ss, token).is_active
    /\ Get(ss, token).user_id = user_id

validate_session(token, user_id) ==
    /\ UNCHANGED rvars
    /\ IF Accepts(sessions, token, user_id)
       THEN IF Fresh(Get(sessions, token), now)
            THEN /\ last' = Op("validate", user_id, token, token, TRUE, "none")
                 /\ UNCHANGED sessions
            ELSE /\ sessions' = [sessions EXCEPT
                                   ![Idx(sessions, token)].is_active = FALSE]
                 /\ last' = OpNote("validate", user_id, token, None, TRUE, "none",
                                    "expired")
       ELSE /\ last' = Op("validate", user_id, token, None, TRUE, "none")
            /\ UNCHANGED sessions
    /\ UNCHANGED <<user_sessions, disk, now, ticks, faults>>

\* mutant of update_session: the session used is made active again
update_session_reviving(token, w) ==
    /\ UNCHANGED rvars
    /\ SaveAllowed(w)
    /\ IF Has(sessions, token)
       THEN /\ sessions' = [sessions EXCEPT ![Idx(sessions, token)].last_used = now,
                                            ![Idx(sessions, token)].is_active = TRUE]
            /\ disk' = _save_sessions(sessions', w, disk)
            /\ faults' = FaultsAfter(w)
            /\ last' = Op("update", None, token, None, TRUE, Saved(w))
       ELSE /\ w = "ok"
            /\ last' = Op("update", None, token, None, TRUE, "none")
            /\ UNCHANGED <<sessions, disk, faults>>
    /\ UNCHANGED <<user_sessions, now, ticks>>

update_session(token, w) ==
    /\ UNCHANGED rvars
    /\ SaveAllowed(w)
    /\ IF Has(sessions, token)
       THEN /\ sessions' = [sessions EXCEPT ![Idx(sessions, token)].last_used = now]
            /\ disk' = _save_sessions(sessions', w, disk)
            /\ faults' = FaultsAfter(w)
            /\ last' = Op("update", None, token, None, TRUE, Saved(w))
       ELSE /\ w = "ok"
            /\ last' = Op("update", None, token, None, TRUE, "none")
            /\ UNCHANGED <<sessions, disk, faults>>
    /\ UNCHANGED <<user_sessions, now, ticks>>

\* the return value of end_session
end_session_ret(ss, token) == Has(ss, token)

\* the state change of end_session, for a token that is a key of self.sessions
end_session_body(token, w) ==
    /\ sessions' = [sessions EXCEPT ![Idx(sessions, token)].is_active = FALSE]
    /\ user_sessions' = [user_sessions EXCEPT ![Get(sessions, token).user_id] = None]
    /\ disk' = _save_sessions(sessions', w, disk)
    /\ faults' = FaultsAfter(w)

end_session(token, w) ==
    /\ UNCHANGED rvars
    /\ SaveAllowed(w)
    /\ IF end_session_ret(sessions, token)
       THEN /\ end_session_body(token, w)
            /\ last' = Op("end", None, token, None, TRUE, Saved(w))
       ELSE /\ w = "ok"
            /\ last' = Op("end", None, token, None, FALSE, "none")
            /\ UNCHANGED <<sessions, user_sessions, disk, faults>>
    /\ UNCHANGED <<now, ticks>>

end_user_session(user_id, w) ==
    /\ UNCHANGED rvars
    /\ SaveAllowed(w)
    /\ IF user_sessions[user_id] # None
          /\ end_session_ret(sessions, user_sessions[user_id])
       THEN /\ end_session_body(user_sessions[user_id], w)
            /\ last' = Op("end_user", user_id, user_sessions[user_id], None, TRUE,
                          Saved(w))
       ELSE /\ w = "ok"
            /\ last' = Op("end_user", user_id, None, None, FALSE, "none")
            /\ UNCHANGED <<sessions, user_sessions, disk, faults>>
    /\ UNCHANGED <<now, ticks>>

\* ---------------------------------------------------------- import / export
export_sessions(ss) == [i \in DOMAIN ss |-> to_dict(ss[i])]

\* mutant of ImportOne: a record whose token is in the store replaces it
ImportOne_overwrite(st, d) ==
    IF ~DictOk(d) THEN st
    ELSE [ss |-> Put(st.ss, from_dict(d)),
          us |-> IF from_dict(d).is_active
                 THEN [st.us EXCEPT ![from_dict(d).user_id] = from_dict(d).token]
                 ELSE st.us,
          n |-> st.n + 1]

\* one pass of the import loop: st = [ss, us, n]
ImportOne(st, d) ==
    IF ~DictOk(d) THEN st
    ELSE IF Has(st.ss, from_dict(d).token) THEN st
    ELSE [ss |-> Append(st.ss, from_dict(d)),
          us |-> IF from_dict(d).is_active
                 THEN [st.us EXCEPT ![from_dict(d).user_id] = from_dict(d).token]
                 ELSE st.us,
          n |-> st.n + 1]

RECURSIVE ImportAll(_, _)
ImportAll(st, batch) ==
    IF batch = <<>> THEN st
    ELSE ImportAll(ImportOne(st, Head(batch)), Tail(batch))

import_sessions(batch, w) ==
    LET r == ImportAll([ss |-> sessions, us |-> user_sessions, n |-> 0], batch) IN
    /\ UNCHANGED rvars
    /\ SaveAllowed(w)
    /\ sessions' = r.ss
    /\ user_sessions' = r.us
    /\ IF r.n > 0
       THEN /\ disk' = _save_sessions(sessions', w, disk)
            /\ faults' = FaultsAfter(w)
            /\ last' = OpNote("import", None, None, r.n, TRUE, Saved(w),
                              IF r.n < Len(batch) THEN "skipped" ELSE "")
       ELSE /\ w = "ok"
            /\ last' = OpNote("import", None, None, r.n, TRUE, "none",
                              IF r.n < Len(batch) THEN "skipped" ELSE "")
            /\ UNCHANGED <<disk, faults>>
    /\ UNCHANGED <<now, ticks>>

\* the creation time of an old record handed to import_sessions: six days and
\* a second before the run starts, so that a day later it is past the
\* retention window
OldTime == -(6 * 86400 + 1)
\* the records a caller may hand to import_sessions
ImportDicts ==
    {[token |-> t, user_id |-> u, created_at |-> isoformat(0),
      last_used |-> isoformat(0), is_active |-> a] :
        t \in Tokens, u \in Users, a \in BOOLEAN}
    \cup {[token |-> t, user_id |-> 1, created_at |-> isoformat(OldTime),
           last_used |-> isoformat(0), is_active |-> a] :
        t \in Tokens, a \in BOOLEAN}
    \cup {[token |-> t, user_id |-> u, created_at |-> isoformat(0),
           last_used |-> isoformat(0)] : t \in Tokens, u \in Users}
    \cup {[user_id |-> u] : u \in {1}}
\* the records of the batches that are one longer than MaxBatch
RepeatDicts ==
    {[token |-> 1, user_id |-> 1, created_at |-> isoformat(0),
      last_used |-> isoformat(0), is_active |-> TRUE],
     [token |-> 1, user_id |-> 2, created_at |-> isoformat(0),
      last_used |-> isoformat(0), is_active |-> FALSE],
     [token |-> 2, user_id |-> 2, created_at |-> isoformat(0),
      last_used |-> isoformat(0), is_active |-> TRUE]}
\* every batch of at most MaxBatch records, and the batches of one more record
\* drawn from RepeatDicts (a token twice in one batch, two new tokens)
Batches ==
    UNION {[1..n -> ImportDicts] : n \in 0..MaxBatch}
    \cup [1..(MaxBatch + 1) -> RepeatDicts]

\* --------------------------------------------------------------- start-up
\* mutant of LoadOne: the index is rebuilt from every record, active or not
LoadOne_all(st, d) ==
    [ss |-> Put(st.ss, from_dict(d)),
     us |-> [st.us EXCEPT ![from_dict(d).user_id] = from_dict(d).token]]

\* _load_sessions: st = [ss, us]
LoadOne(st, d) ==
    [ss |-> Put(st.ss, from_dict(d)),
     us |-> IF from_dict(d).is_active
            THEN [st.us EXCEPT ![from_dict(d).user_id] = from_dict(d).token]
            ELSE st.us]

\* the loop of _load_sessions inside its try: a record from_dict cannot read
\* raises, the except clause logs it and the records after it are not read
RECURSIVE LoadAll(_, _)
LoadAll(st, data) ==
    IF data = <<>> \/ ~DictOk(Head(data)) THEN st
    ELSE LoadAll(LoadOne(st, Head(data)), Tail(data))

_load_sessions(d) ==
    IF d.state = "ok"
    THEN LoadAll([ss |-> <<>>, us |-> [u \in Users |-> None]], d.data)
    ELSE [ss |-> <<>>, us |-> [u \in Users |-> None]]

\* mutant of Stale: the age alone decides, active or not
Stale_any(s, t) == s.created_at < t - Retention

\* not session.is_active and session.created_at < cutoff_time
Stale(s, t) == ~s.is_active /\ s.created_at < t - Retention
_cleanup_old_sessions(ss) == SelectSeq(ss, LAMBDA s : ~Stale(s, now))

\* SessionManager.__init__ in a new process over the same sessions file
Restart(w) ==
    LET loaded == _load_sessions(disk)
        cleaned == _cleanup_old_sessions(loaded.ss) IN
    /\ UNCHANGED rvars
    /\ SaveAllowed(w)
    /\ sessions' = cleaned
    /\ user_sessions' = loaded.us
    /\ IF Len(cleaned) # Len(loaded.ss)
       THEN /\ disk' = _save_sessions(cleaned, w, disk)
            /\ faults' = FaultsAfter(w)
            /\ last' = Op("restart", None, None, None, TRUE, Saved(w))
       ELSE /\ w = "ok"
            /\ last' = Op("restart", None, None, None, TRUE, "none")
            /\ UNCHANGED <<disk, faults>>
    /\ UNCHANGED <<now, ticks>>

Tick ==
    /\ UNCHANGED rvars
    /\ ticks < MaxTicks
    /\ now' = now + ClockStep(ticks + 1)
    /\ ticks' = ticks + 1
    /\ last' = Op("tick", None, None, None, TRUE, "none")
    /\ UNCHANGED <<sessions, user_sessions, disk, faults>>

\* the operations of the store, the writes of the sessions file ending as W
\* allows, import_sessions called with the batches of B
OpsOver(W, B) ==
    \/ \E u \in Users, t \in Tokens, m \in BOOLEAN, w \in W :
          create_session(u, t, m, w)
    \/ \E u \in Users : get_user_active_session(u)
    \/ \E t \in Tokens, u \in Users : validate_session(t, u)
    \/ \E t \in Tokens, w \in W : update_session(t, w)
    \/ \E t \in Tokens, w \in W : end_session(t, w)
    \/ \E u \in Users, w \in W : end_user_session(u, w)
    \/ \E b \in B, w \in W : import_sessions(b, w)
    \/ \E w \in W : Restart(w)

Ops(W) == OpsOver(W, Batches)


\* ================================================================ RepoManager
\* A Python str is a sequence of one-character strings; a path is a sequence
\* of components, each a str.
DotGit == <<".", "g", "i", "t">>
HttpsGithub ==
    <<"h","t","t","p","s",":","/","/","g","i","t","h","u","b",".","c","o","m","/">>
HttpGithub ==
    <<"h","t","t","p",":","/","/","g","i","t","h","u","b",".","c","o","m","/">>

startswith(u, pre) == Len(u) >= Len(pre) /\ SubSeq(u, 1, Len(pre)) = pre
endswith(u, suf) ==
    Len(u) >= Len(suf) /\ SubSeq(u, Len(u) - Len(suf) + 1, Len(u)) = suf

\* url.rstrip('/')
\* mutant of rstrip_slash: only one trailing slash is removed
rstrip_slash_one(u) ==
    IF u # <<>> /\ u[Len(u)] = "/" THEN SubSeq(u, 1, Len(u) - 1) ELSE u

RECURSIVE rstrip_slash(_)
rstrip_slash(u) ==
    IF u # <<>> /\ u[Len(u)] = "/" THEN rstrip_slash(SubSeq(u, 1, Len(u) - 1))
    ELSE u

\* position of the first '/' of u, 0 when it has none
FirstSlash(u) ==
    LET at == {i \in DOMAIN u : u[i] = "/"} IN
    IF at = {} THEN 0 ELSE CHOOSE i \in at : \A j \in at : i <= j

NoMatch == [ok |-> FALSE, owner |-> <<>>, repo |-> <<>>]

\* ([^/]+)/([^/]+)$ matched from the start of r, or with opt_slash
\* ([^/]+)/([^/]+)/?$
MatchOwnerRepo(r, opt_slash) ==
    LET i == FirstSlash(r)
        rest == SubSeq(r, i + 1, Len(r))
        j == FirstSlash(rest)
    IN IF i <= 1 THEN NoMatch
       ELSE IF j = 0
            THEN IF rest = <<>> THEN NoMatch
                 ELSE [ok |-> TRUE, owner |-> SubSeq(r, 1, i - 1), repo |-> rest]
            ELSE IF j > 1 /\ j = Len(rest) /\ opt_slash
                 THEN [ok |-> TRUE, owner |-> SubSeq(r, 1, i - 1),
                       repo |-> SubSeq(rest, 1, j - 1)]
                 ELSE NoMatch

\* re.match(r'https?://github\.com/([^/]+)/([^/]+)/?$', u)
MatchFullUrl(u) ==
    IF startswith(u, HttpsGithub)
    THEN MatchOwnerRepo(SubSeq(u, Len(HttpsGithub) + 1, Len(u)), TRUE)
    ELSE IF startswith(u, HttpGithub)
         THEN MatchOwnerRepo(SubSeq(u, Len(HttpGithub) + 1, Len(u)), TRUE)
         ELSE NoMatch

\* re.match(r'([^/]+)/([^/]+)$', u)
MatchShorthand(u) == MatchOwnerRepo(u, FALSE)

\* validate_github_url: [ok, url], url the normalized URL when ok
validate_github_url(url) ==
    LET u1 == rstrip_slash(url)
        u2 == IF endswith(u1, DotGit) THEN SubSeq(u1, 1, Len(u1) - 4) ELSE u1
        full == MatchFullUrl(u2)
        m == IF full.ok THEN full ELSE MatchShorthand(u2)
    IN IF m.ok
       THEN [ok |-> TRUE, url |-> HttpsGithub \o m.owner \o <<"/">> \o m.repo]
       ELSE [ok |-> FALSE, url |-> <<>>]

\* ------------------------------------------------------------------- paths
\* pathlib's "/" with one more component: "." is dropped, ".." is kept
JoinPath(path, comp) == IF comp = <<".">> THEN path ELSE Append(path, comp)

\* Path("./repos")
base_repos_dir == << <<"r","e","p","o","s">> >>
\* str(user_id), for the one-digit ids of the model
str(user_id) == <<ToString(user_id)>>

get_user_repo_dir(user_id, owner, repo) ==
    JoinPath(JoinPath(JoinPath(base_repos_dir, str(user_id)), owner), repo)

\* a lexical path (a pathlib.Path): absolute or relative to the working
\* directory, its ".." components kept
LexPath(abs, parts) == [abs |-> abs, parts |-> parts]
DotDot == <<".", ".">>

\* the components of a path string: split at '/', "" and "." dropped
SplitPath(chars) ==
    LET cuts == {0, Len(chars) + 1} \cup {i \in DOMAIN chars : chars[i] = "/"}
        cut(n) == CHOOSE c \in cuts : Cardinality({d \in cuts : d < c}) = n - 1
        pieces == [n \in 1..(Cardinality(cuts) - 1) |->
                      SubSeq(chars, cut(n) + 1, cut(n + 1) - 1)]
        named(c) == c # <<>> /\ c # <<".">>
    IN SelectSeq(pieces, named)

\* Path(string)
ParsePath(chars) ==
    LexPath(chars # <<>> /\ Head(chars) = "/", SplitPath(chars))

\* repo_path / relative_path: an absolute right operand replaces the left one
JoinLex(left, right) ==
    IF right.abs THEN right ELSE LexPath(left.abs, left.parts \o right.parts)

\* the working directory of the process; "./repos" is relative to it
Cwd == << <<"a","p","p">> >>
Parent(path) == IF path = <<>> THEN <<>> ELSE SubSeq(path, 1, Len(path) - 1)

\* how the operating system walks a path: every component passed through must
\* be an existing directory, ".." steps to the parent
RECURSIVE Walk(_, _, _)
Walk(cur, parts, dirs) ==
    IF parts = <<>> THEN [ok |-> TRUE, path |-> cur]
    ELSE IF cur \notin dirs THEN [ok |-> FALSE, path |-> cur]
    ELSE IF Head(parts) = DotDot THEN Walk(Parent(cur), Tail(parts), dirs)
    ELSE Walk(Append(cur, Head(parts)), Tail(parts), dirs)

Resolve(lex, f) == Walk(IF lex.abs THEN <<>> ELSE Cwd, lex.parts, f.dirs)
\* mutant of exists: only a regular file counts as existing
exists_file(lex, f) == Resolve(lex, f).ok /\ Resolve(lex, f).path \in f.files

exists(lex, f) ==
    Resolve(lex, f).ok /\ Resolve(lex, f).path \in f.dirs \cup f.files
is_dir(lex, f) == Resolve(lex, f).ok /\ Resolve(lex, f).path \in f.dirs

\* the longest file name the file system takes (NAME_MAX)
NameMax == 255
\* Path.exists() raises OSError (ENAMETOOLONG), which it does not swallow,
\* when the walk comes to a component longer than NameMax
name_too_long(lex, f) ==
    \E i \in DOMAIN lex.parts :
        /\ Len(lex.parts[i]) > NameMax
        /\ is_dir(LexPath(lex.abs, SubSeq(lex.parts, 1, i - 1)), f)

IsPrefix(pre, path) == Len(pre) <= Len(path) /\ SubSeq(path, 1, Len(pre)) = pre
Children(dir, f) == {q \in f.dirs \cup f.files : Len(q) = Len(dir) + 1 /\ IsPrefix(dir, q)}
Name(path) == path[Len(path)]

\* the tree a successful git clone leaves in its target directory
GitDir == DotGit
SrcDir == <<"s","r","c">>
ReadmeMd == <<"R","E","A","D","M","E",".","m","d">>
DotEnv == <<".","e","n","v">>
ClonedDirs(root) == {root, Append(root, GitDir), Append(root, SrcDir)}
ClonedFiles(root) ==
    {Append(root, ReadmeMd), Append(root, DotEnv),
     Append(Append(root, SrcDir), <<"m","a","i","n",".","p","y">>),
     Append(Append(root, GitDir), <<"c","o","n","f","i","g">>)}
\* what a clone killed by its timeout may leave behind
PartialDirs(root) == {root, Append(root, GitDir)}

\* Path.mkdir(parents=True, exist_ok=True): the directories it creates; it
\* fails when a component on the way is a file
RECURSIVE Mkdirs(_, _, _)
Mkdirs(cur, parts, f) ==
    IF cur \in f.files THEN [ok |-> FALSE, fs |-> f]
    ELSE LET g == [f EXCEPT !.dirs = @ \cup {cur}] IN
         IF parts = <<>> THEN [ok |-> TRUE, fs |-> g]
         ELSE IF Head(parts) = DotDot THEN Mkdirs(Parent(cur), Tail(parts), g)
         ELSE Mkdirs(Append(cur, Head(parts)), Tail(parts), g)

mkdir_parents(lex, f) == Mkdirs(IF lex.abs THEN <<>> ELSE Cwd, lex.parts, f)

\* ------------------------------------------------------------------ index
\* str.lower(), on the characters the model's names use
lower_char(c) ==
    CASE c = "R" -> "r" [] c = "E" -> "e" [] c = "A" -> "a" [] c = "D" -> "d"
      [] c = "M" -> "m" [] OTHER -> c
lower(name) == [i \in DOMAIN name |-> lower_char(name[i])]

\* Path(name).suffix: from the last '.', unless that is the first character or
\* the last one
suffix(name) ==
    LET dots == {i \in DOMAIN name : name[i] = "."}
        k == CHOOSE i \in dots : \A j \in dots : j <= i
    IN IF dots = {} THEN <<>>
       ELSE IF k = 1 \/ k = Len(name) THEN <<>>
       ELSE SubSeq(name, k, Len(name))

\* language_map of _detect_language ("none": the extension is not in it)
language_map(ext) ==
    CASE ext = <<".","p","y">> -> "Python"
      [] ext = <<".","j","s">> -> "JavaScript"
      [] ext = <<".","t","s">> -> "TypeScript"
      [] ext = <<".","j","s","x">> -> "React"
      [] ext = <<".","t","s","x">> -> "React"
      [] ext = <<".","j","a","v","a">> -> "Java"
      [] ext = <<".","c","p","p">> -> "C++"
      [] ext = <<".","c">> -> "C"
      [] ext = <<".","c","s">> -> "C#"
      [] ext = <<".","p","h","p">> -> "PHP"
      [] ext = <<".","r","b">> -> "Ruby"
      [] ext = <<".","g","o">> -> "Go"
      [] ext = <<".","r","s">> -> "Rust"
      [] ext = <<".","s","w","i","f","t">> -> "Swift"
      [] ext = <<".","k","t">> -> "Kotlin"
      [] ext = <<".","h","t","m","l">> -> "HTML"
      [] ext = <<".","c","s","s">> -> "CSS"
      [] ext = <<".","s","c","s","s">> -> "Sass"
      [] ext = <<".","l","e","s","s">> -> "Less"
      [] ext = <<".","s","q","l">> -> "SQL"
      [] ext = <<".","s","h">> -> "Shell"
      [] ext = <<".","j","s","o","n">> -> "JSON"
      [] ext = <<".","x","m","l">> -> "XML"
      [] ext = <<".","y","a","m","l">> -> "YAML"
      [] ext = <<".","y","m","l">> -> "YAML"
      [] ext = <<".","m","d">> -> "Markdown"
      [] ext = <<".","t","x","t">> -> "Text"
      [] ext = <<".","d","o","c","k","e","r","f","i","l","e">> -> "Docker"
      [] ext = <<".","g","i","t","i","g","n","o","r","e">> -> "Git"
      [] ext = <<".","e","n","v">> -> "Environment"
      [] OTHER -> "none"

\* _detect_language(ext, ""): an empty filename is no special filename
_extensions_to_languages(extensions) ==
    {language_map(lower(e)) : e \in extensions} \ {"none"}

\* mutant of Walked: '.git' is walked like any directory
Walked_all(top, f) == {d \in f.dirs : IsPrefix(top, d)}
\* the directories os.walk visits below top once '.git' is pruned
Walked(top, f) ==
    {d \in f.dirs : /\ IsPrefix(top, d)
                    /\ \A i \in (Len(top) + 1)..Len(d) : d[i] # GitDir}

_index_repo(top, f) ==
    LET visited == Walked(top, f)
        found == {q \in f.files : Parent(q) \in visited}
        exts == {lower(suffix(Name(q))) : q \in {x \in found : Head(Name(x)) # "."}}
                  \ {<<>>}
    IN [total_files |-> Cardinality(found),
        total_dirs |-> Cardinality(visited \ {top}),
        extensions |-> exts,
        languages |-> _extensions_to_languages(exts)]

\* ------------------------------------------------------- clone, update, list
\* what a RepoManager operation returned: success and kind (the action taken,
\* or the error_type); path: the repo_dir it computed, for a listing the
\* relative path it was asked for (has_path); calls: the
\* git commands it ran, in order; for a listing, none (it returned None) and
\* entries (the file_info dicts, order left out)
RepoRet(op, user, success, kind, has_path, path, calls, none, entries) ==
    [op |-> op, user |-> user, success |-> success, kind |-> kind,
     has_path |-> has_path, path |-> path, calls |-> calls, none |-> none,
     entries |-> entries]
NoPath == LexPath(FALSE, <<>>)
\* mutant of CloneRet: git is probed before anything else is looked at
CloneRet_probed(user, success, kind, has_path, path, calls) ==
    RepoRet("clone_or_update", user, success, kind, has_path, path,
            IF calls = <<>> THEN <<"git --version">> ELSE calls, FALSE, {})
\* mutant of CloneRet: the call reports a failure whatever it did
CloneRet_failed(user, success, kind, has_path, path, calls) ==
    RepoRet("clone_or_update", user, FALSE, kind, has_path, path, calls, FALSE, {})
CloneRet(user, success, kind, has_path, path, calls) ==
    RepoRet("clone_or_update", user, success, kind, has_path, path, calls, FALSE, {})

\* mutant of SetRepo: a user who has an active repository keeps it
SetRepo_keep(repos, user_id, rec) ==
    [u \in DOMAIN repos \cup {user_id} |-> IF u \in DOMAIN repos THEN repos[u] ELSE rec]

\* self.user_repos[user_id] = {...}
SetRepo(repos, user_id, rec) ==
    [u \in DOMAIN repos \cup {user_id} |-> IF u = user_id THEN rec ELSE repos[u]]

RepoRecord(owner, repo, url, path, info) ==
    [owner |-> owner, repo |-> repo, url |-> url, path |-> path, info |-> info]

VersionCall == "git --version"
\* how the git subprocesses of one call end: version is git --version, first
\* the clone or the pull of main, second the pull of master (a run that is
\* never started is listed as "ok")
GitRun(version, first, second) ==
    [version |-> version, first |-> first, second |-> second]
GitRuns ==
    {GitRun(FALSE, "ok", "ok"), GitRun(TRUE, "ok", "ok"),
     GitRun(TRUE, "timeout", "ok")}
    \cup {GitRun(TRUE, "fail", x) : x \in {"ok", "fail", "timeout"}}

CloneCall == "git clone"
PullMain == "git pull origin main"
PullMaster == "git pull origin master"

\* mutant of _update_repo: the repository is cloned afresh
_update_repo_reclone(g) == [ok |-> g.first = "ok", calls |-> <<CloneCall>>]
\* _update_repo: [ok, calls]
_update_repo(g) ==
    IF g.first = "ok" THEN [ok |-> TRUE, calls |-> <<PullMain>>]
    ELSE IF g.first = "timeout" THEN [ok |-> FALSE, calls |-> <<PullMain>>]
    ELSE [ok |-> g.second = "ok", calls |-> <<PullMain, PullMaster>>]

\* _clone_repo: [ok, calls, fs, made]
_clone_repo(repo_dir, g, f) ==
    LET mk == mkdir_parents(LexPath(repo_dir.abs, Parent(repo_dir.parts)), f)
        at == Resolve(repo_dir, mk.fs).path
        free == /\ at \notin mk.fs.files
                /\ at \in mk.fs.dirs => Children(at, mk.fs) = {}
    IN IF ~mk.ok THEN [ok |-> FALSE, calls |-> <<>>, fs |-> mk.fs, made |-> FALSE]
       ELSE IF free /\ g.first = "ok"
            THEN [ok |-> TRUE, calls |-> <<CloneCall>>, made |-> TRUE,
                  fs |-> [dirs |-> mk.fs.dirs \cup ClonedDirs(at),
                          files |-> mk.fs.files \cup ClonedFiles(at)]]
       ELSE IF free /\ g.first = "timeout"
            THEN [ok |-> FALSE, calls |-> <<CloneCall>>, made |-> TRUE,
                  fs |-> [mk.fs EXCEPT !.dirs = @ \cup PartialDirs(at)]]
       ELSE [ok |-> FALSE, calls |-> <<CloneCall>>, fs |-> mk.fs, made |-> FALSE]

clone_or_update_repo(user_id, github_url, g) ==
    LET v == validate_github_url(github_url)
        m == MatchFullUrl(v.url)
        repo_dir == LexPath(FALSE, get_user_repo_dir(user_id, m.owner, m.repo))
        up == _update_repo(g)
        cl == _clone_repo(repo_dir, g, fs)
        loaded(f) == SetRepo(user_repos, user_id,
                       RepoRecord(m.owner, m.repo, v.url, repo_dir,
                                  _index_repo(Resolve(repo_dir, f).path, f)))
    IN
    /\ UNCHANGED svars
    /\ UNCHANGED loop
    /\ IF ~v.ok
       THEN /\ rlast' = CloneRet(user_id, FALSE, "invalid_url", FALSE, NoPath, <<>>)
            /\ UNCHANGED <<user_repos, fs, clones>>
       ELSE IF ~m.ok
       THEN /\ rlast' = CloneRet(user_id, FALSE, "parse_error", FALSE, NoPath, <<>>)
            /\ UNCHANGED <<user_repos, fs, clones>>
       ELSE IF ~g.version
       THEN /\ rlast' = CloneRet(user_id, FALSE, "git_missing", FALSE, NoPath,
                                 <<VersionCall>>)
            /\ UNCHANGED <<user_repos, fs, clones>>
       ELSE IF exists(repo_dir, fs)
       THEN /\ UNCHANGED <<fs, clones>>
            /\ IF ~is_dir(repo_dir, fs)
               THEN \* subprocess.run(cwd=<a file>) raises: "Update error"
                    /\ rlast' = CloneRet(user_id, FALSE, "update_error", TRUE, repo_dir,
                                         <<VersionCall>>)
                    /\ UNCHANGED user_repos
               ELSE IF up.ok
               THEN /\ user_repos' = loaded(fs)
                    /\ rlast' = CloneRet(user_id, TRUE, "updated", TRUE, repo_dir,
                                         <<VersionCall>> \o up.calls)
               ELSE /\ rlast' = CloneRet(user_id, FALSE, "update_error", TRUE, repo_dir,
                                         <<VersionCall>> \o up.calls)
                    /\ UNCHANGED user_repos
       ELSE /\ cl.made => clones < MaxClones
            /\ fs' = cl.fs
            /\ clones' = IF cl.made THEN clones + 1 ELSE clones
            /\ IF cl.ok
               THEN /\ user_repos' = loaded(cl.fs)
                    /\ rlast' = CloneRet(user_id, TRUE, "cloned", TRUE, repo_dir,
                                         <<VersionCall>> \o cl.calls)
               ELSE /\ rlast' = CloneRet(user_id, FALSE, "clone_error", TRUE, repo_dir,
                                         <<VersionCall>> \o cl.calls)
                    /\ UNCHANGED user_repos

\* the special file names of _detect_language, as filename.lower().title()
special_language(name) ==
    CASE lower(name) = <<"d","o","c","k","e","r","f","i","l","e">> -> "Dockerfile"
      [] lower(name) = <<"m","a","k","e","f","i","l","e">> -> "Makefile"
      [] lower(name) = <<"r","e","a","d","m","e">> -> "Readme"
      [] lower(name) = <<"l","i","c","e","n","s","e">> -> "License"
      [] OTHER -> "none"

_detect_language(ext, name) ==
    IF language_map(lower(ext)) # "none" THEN language_map(lower(ext))
    ELSE special_language(name)

\* item.relative_to(repo_path): [ok, parts]; it raises when repo_path is no
\* lexical prefix of item or only one of the two is absolute
relative_to(item, repo_path) ==
    IF item.abs = repo_path.abs /\ IsPrefix(repo_path.parts, item.parts)
    THEN [ok |-> TRUE,
          parts |-> SubSeq(item.parts, Len(repo_path.parts) + 1, Len(item.parts))]
    ELSE [ok |-> FALSE, parts |-> <<>>]

file_info(q, target, repo_path, f) ==
    [name |-> Name(q),
     path |-> relative_to(LexPath(target.abs, Append(target.parts, Name(q))),
                          repo_path).parts,
     is_dir |-> q \in f.dirs,
     extension |-> IF q \in f.files THEN suffix(Name(q)) ELSE <<>>,
     language |-> IF q \in f.files THEN _detect_language(suffix(Name(q)), Name(q))
                  ELSE "none"]

\* mutant of skipped: no entry is skipped
skipped_none(q) == FALSE

\* if item.name.startswith('.'): continue
skipped(q) == startswith(Name(q), <<".">>)

\* what list_files_in_repo returns for a user who has an active repository
listing(repo_path, relative_path, f) ==
    LET target == IF relative_path = <<>> THEN repo_path
                  ELSE JoinLex(repo_path, ParsePath(relative_path))
        shown == {q \in Children(Resolve(target, f).path, f) : ~skipped(q)}
    IN IF ~exists(target, f) \/ ~is_dir(target, f) THEN {}
       ELSE IF \E q \in shown :
                 ~relative_to(LexPath(target.abs, Append(target.parts, Name(q))),
                              repo_path).ok
            THEN {}
       ELSE {file_info(q, target, repo_path, f) : q \in shown}

\* what list_files_in_repo returns: None, or the list of entries, or raised
\* when target_path.exists(), which is outside the try block, raises
list_files_ret(repos, user_id, relative_path, f) ==
    IF user_id \notin DOMAIN repos
    THEN [none |-> TRUE, entries |-> {}, raised |-> FALSE]
    ELSE IF name_too_long(JoinLex(repos[user_id].path, ParsePath(relative_path)), f)
         THEN [none |-> FALSE, entries |-> {}, raised |-> TRUE]
    ELSE [none |-> FALSE,
          entries |-> listing(repos[user_id].path, relative_path, f),
          raised |-> FALSE]

list_files_in_repo(user_id, relative_path) ==
    LET r == list_files_ret(user_repos, user_id, relative_path, fs) IN
    /\ UNCHANGED svars
    /\ UNCHANGED loop
    /\ rlast' = RepoRet("list", user_id, ~r.none /\ ~r.raised,
                        IF r.raised THEN "OSError" ELSE "", TRUE,
                        ParsePath(relative_path), <<>>, r.none, r.entries)
    /\ UNCHANGED <<user_repos, fs, clones>>

\* the value of rlast that holds a URL still to be validated
UrlArg(url) ==
    [op |-> "input", user |-> None, success |-> TRUE, kind |-> "",
     has_path |-> FALSE, path |-> NoPath, calls |-> <<>>, none |-> FALSE,
     entries |-> {}, arg |-> url, url |-> <<>>, again |-> FALSE]
\* what validate_github_url returned for arg; again: arg was itself a
\* normalized URL
UrlRet(arg, v, again) ==
    [UrlArg(arg) EXCEPT !.op = "validate", !.success = v.ok, !.url = v.url,
                        !.again = again]

\* a call of validate_github_url, on the input or on the URL the call before
\* returned
validate_github_url_call ==
    /\ UNCHANGED svars
    /\ UNCHANGED loop
    /\ \/ /\ rlast.op = "input"
          /\ rlast' = UrlRet(rlast.arg, validate_github_url(rlast.arg), FALSE)
       \/ /\ rlast.op = "validate" /\ rlast.success /\ ~rlast.again
          /\ rlast' = UrlRet(rlast.url, validate_github_url(rlast.url), TRUE)
    /\ UNCHANGED <<user_repos, fs, clones>>

\* ---------------------------------------------------------- RepoCache inputs
UrlInputs ==
    {<<"o","/","r">>, DotDot \o <<"/","2">>,
     HttpsGithub \o <<"o","/","r">> \o DotGit, <<"o">>}
\* the relative paths listed, the last a file name of NameMax + 1 characters
RelPaths ==
    {<<>>, <<"/">> \o Cwd[1], SrcDir, DotDot, SrcDir \o <<"/">> \o DotDot,
     ReadmeMd, <<"x">>, [i \in 1..(NameMax + 1) |-> "a"]}

\* the pieces the URLs given to validate_github_url are made of
HttpsGitlab ==
    <<"h","t","t","p","s",":","/","/","g","i","t","l","a","b",".","c","o","m","/">>
RECURSIVE Concat(_)
Concat(parts) == IF parts = <<>> THEN <<>> ELSE Head(parts) \o Concat(Tail(parts))
\* every string of at most MaxUrlParts pieces
UrlStrings ==
    LET UrlParts == {<<"o">>, <<"/">>, DotGit, HttpsGithub, HttpGithub, HttpsGitlab}
    IN {Concat(p) : p \in UNION {[1..n -> UrlParts] : n \in 0..MaxUrlParts}}

\* ================================================================ DiffHelper
\* A text is a str, a line a str that keeps its line end.
Min(x, y) == IF x <= y THEN x ELSE y
Max(x, y) == IF x >= y THEN x ELSE y

\* str.splitlines(), the line ends dropped
splitlines_bare(s) ==
    LET ends == {i \in DOMAIN s : s[i] = "\n" \/ i = Len(s)}
        nth(n) == CHOOSE c \in ends : Cardinality({d \in ends : d < c}) = n - 1
        start(n) == IF n = 1 THEN 1 ELSE nth(n - 1) + 1
    IN [n \in 1..Cardinality(ends) |->
          SubSeq(s, start(n), IF s[nth(n)] = "\n" THEN nth(n) - 1 ELSE nth(n))]
\* str.splitlines(keepends=True), for texts whose only line end is "\n"
splitlines(s) ==
    LET ends == {i \in DOMAIN s : s[i] = "\n" \/ i = Len(s)}
        nth(n) == CHOOSE c \in ends : Cardinality({d \in ends : d < c}) = n - 1
        start(n) == IF n = 1 THEN 1 ELSE nth(n - 1) + 1
    IN [n \in 1..Cardinality(ends) |-> SubSeq(s, start(n), nth(n))]

\* difflib.SequenceMatcher(None, a, b) on sequences too short for its
\* "popular element" heuristic; indices count from 0 as in Python.
\* find_longest_match: of the blocks a[i:i+k] == b[j:j+k] with alo <= i,
\* i+k <= ahi, blo <= j, j+k <= bhi the longest, of those the one that starts
\* earliest in a, of those the one that starts earliest in b
find_longest_match(a, b, alo, ahi, blo, bhi) ==
    LET best(ms) ==
            IF ms = {} THEN [i |-> alo, j |-> blo, k |-> 0]
            ELSE CHOOSE m \in ms : \A o \in ms :
                    \/ m.k > o.k
                    \/ m.k = o.k /\ m.i < o.i
                    \/ m.k = o.k /\ m.i = o.i /\ m.j <= o.j
    IN best({m \in [i : alo..(ahi - 1), j : blo..(bhi - 1), k : 1..Max(1, ahi - alo)] :
                /\ m.i + m.k <= ahi
                /\ m.j + m.k <= bhi
                /\ \A d \in 1..m.k : a[m.i + d] = b[m.j + d]})

\* get_matching_blocks, without its closing (len(a), len(b), 0) block: the
\* blocks left of the longest block m, m, the blocks right of it
RECURSIVE matching_blocks(_, _, _, _, _, _)
matching_blocks(a, b, alo, ahi, blo, bhi) ==
    LET around(m) ==
            IF m.k = 0 THEN <<>>
            ELSE (IF alo < m.i /\ blo < m.j
                  THEN matching_blocks(a, b, alo, m.i, blo, m.j) ELSE <<>>)
                 \o <<m>>
                 \o (IF m.i + m.k < ahi /\ m.j + m.k < bhi
                     THEN matching_blocks(a, b, m.i + m.k, ahi, m.j + m.k, bhi)
                     ELSE <<>>)
    IN around(find_longest_match(a, b, alo, ahi, blo, bhi))

Opcode(tag, i1, i2, j1, j2) == [tag |-> tag, i1 |-> i1, i2 |-> i2, j1 |-> j1, j2 |-> j2]

\* the loop of get_opcodes over the blocks left, (i, j) the place reached
RECURSIVE opcodes_from(_, _, _)
opcodes_from(blocks, i, j) ==
    IF blocks = <<>> THEN <<>>
    ELSE LET m == Head(blocks)
             tag == IF i < m.i /\ j < m.j THEN "replace"
                    ELSE IF i < m.i THEN "delete"
                    ELSE IF j < m.j THEN "insert" ELSE ""
         IN (IF tag # "" THEN <<Opcode(tag, i, m.i, j, m.j)>> ELSE <<>>)
            \o (IF m.k > 0
                THEN <<Opcode("equal", m.i, m.i + m.k, m.j, m.j + m.k)>> ELSE <<>>)
            \o opcodes_from(Tail(blocks), m.i + m.k, m.j + m.k)

get_opcodes(a, b) ==
    opcodes_from(matching_blocks(a, b, 0, Len(a), 0, Len(b))
                   \o <<[i |-> Len(a), j |-> Len(b), k |-> 0]>>, 0, 0)

\* context_lines
ContextLines == 3

\* the loop of get_grouped_opcodes over the opcodes left, group the group
\* being filled
RECURSIVE groups_from(_, _)
groups_from(codes, group) ==
    IF codes = <<>>
    THEN IF group # <<>> /\ ~(Len(group) = 1 /\ group[1].tag = "equal")
         THEN <<group>> ELSE <<>>
    ELSE LET c == Head(codes)
             n == ContextLines
         IN IF c.tag = "equal" /\ c.i2 - c.i1 > 2 * n
            THEN <<Append(group, Opcode(c.tag, c.i1, Min(c.i2, c.i1 + n),
                                         c.j1, Min(c.j2, c.j1 + n)))>>
                 \o groups_from(Tail(codes),
                                <<Opcode(c.tag, Max(c.i1, c.i2 - n), c.i2,
                                         Max(c.j1, c.j2 - n), c.j2)>>)
            ELSE groups_from(Tail(codes), Append(group, c))

\* get_grouped_opcodes(n): no opcode at all counts as one equal opcode; the
\* first and the last opcode, when equal, are cut down to n lines
get_grouped_opcodes(a, b) ==
    LET or_equal(codes) ==
            IF codes = <<>> THEN <<Opcode("equal", 0, 1, 0, 1)>> ELSE codes
        trim_first(codes, n) ==
            LET f == codes[1] IN
            IF f.tag = "equal"
            THEN [codes EXCEPT ![1] = Opcode(f.tag, Max(f.i1, f.i2 - n), f.i2,
                                             Max(f.j1, f.j2 - n), f.j2)]
            ELSE codes
        trim_last(codes, n) ==
            LET l == codes[Len(codes)] IN
            IF l.tag = "equal"
            THEN [codes EXCEPT ![Len(codes)] =
                     Opcode(l.tag, l.i1, Min(l.i2, l.i1 + n), l.j1, Min(l.j2, l.j1 + n))]
            ELSE codes
    IN groups_from(trim_last(trim_first(or_equal(get_opcodes(a, b)), ContextLines),
                             ContextLines), <<>>)

\* _format_range_unified
_format_range_unified(start, stop) ==
    IF stop - start = 1 THEN <<ToString(start + 1)>>
    ELSE <<ToString(IF stop = start THEN start ELSE start + 1), ",",
           ToString(stop - start)>>

\* difflib.unified_diff(a, b, fromfile='old', tofile='new', lineterm='', n=3):
\* nothing when there is no group; else the two header lines, then for every
\* group its '@@ -r1 +r2 @@' line and the lines of its opcodes, each line of
\* a[i1:i2] or b[j1:j2] with its mark before it
unified_diff(a, b) ==
    LET Marked(mark, x, i1, i2) == [n \in 1..(i2 - i1) |-> <<mark>> \o x[i1 + n]]
        OpcodeLines(c) ==
            IF c.tag = "equal" THEN Marked(" ", a, c.i1, c.i2)
            ELSE (IF c.tag \in {"replace", "delete"}
                  THEN Marked("-", a, c.i1, c.i2) ELSE <<>>)
                 \o (IF c.tag \in {"replace", "insert"}
                     THEN Marked("+", b, c.j1, c.j2) ELSE <<>>)
        GroupLines(g) ==
            << <<"@", "@", " ", "-">> \o _format_range_unified(g[1].i1, g[Len(g)].i2)
               \o <<" ", "+">> \o _format_range_unified(g[1].j1, g[Len(g)].j2)
               \o <<" ", "@", "@">> >>
            \o Concat([n \in DOMAIN g |-> OpcodeLines(g[n])])
        of_groups(gs) ==
            IF gs = <<>> THEN <<>>
            ELSE << <<"-", "-", "-", " ", "o", "l", "d">>,
                    <<"+", "+", "+", " ", "n", "e", "w">> >>
                 \o Concat([n \in DOMAIN gs |-> GroupLines(gs[n])])
    IN of_groups(get_grouped_opcodes(a, b))

\* the grave accent (U+0060), which has no place in a string of this module
BackTick == "grave"
special_chars ==
    {"_", "*", "[", "]", "(", ")", "~", BackTick, ">", "#", "=", "|", "{", "}",
     ".", "!"}

\* _escape_markdown: a backslash before every character of special_chars
_escape_markdown(text) ==
    Concat([n \in DOMAIN text |->
              IF text[n] \in special_chars THEN <<"\\", text[n]>> ELSE <<text[n]>>])

\* _format_for_telegram: [parts, out], parts the list formatted_parts, out
\* the string returned: the parts joined with "\n" between the fences
_format_for_telegram(diff_lines) ==
    LET formatted(line, escaped_line) ==
            IF startswith(line, <<"-", "-", "-">>) \/ startswith(line, <<"+", "+", "+">>)
            THEN <<"*", "*">> \o escaped_line \o <<"*", "*">>
            ELSE IF startswith(line, <<"@", "@">>)
                 THEN <<"*">> \o escaped_line \o <<"*">>
            ELSE IF startswith(line, <<"-">>) THEN <<"-">> \o Tail(escaped_line)
            ELSE IF startswith(line, <<"+">>) THEN <<"+">> \o Tail(escaped_line)
            ELSE <<" ">> \o escaped_line
        fenced(parts) ==
            [parts |-> parts,
             out |-> <<BackTick, BackTick, BackTick, "d", "i", "f", "f", "\n">>
                     \o Concat([n \in DOMAIN parts |->
                                  IF n = 1 THEN parts[n] ELSE <<"\n">> \o parts[n]])
                     \o <<"\n", BackTick, BackTick, BackTick>>]
    IN fenced([n \in DOMAIN diff_lines |->
                 formatted(diff_lines[n], _escape_markdown(diff_lines[n]))])

\* the message returned for equal texts, as one symbol
NoChanges == <<"No changes detected - files are identical">>

\* create_unified_diff: [lines, parts, out], lines what unified_diff gave,
\* parts the formatted lines, out the string returned
create_unified_diff(old_content, new_content) ==
    LET result(diff_lines) ==
            IF diff_lines = <<>>
            THEN [lines |-> <<>>, parts |-> <<>>, out |-> NoChanges]
            ELSE [lines |-> diff_lines] @@ _format_for_telegram(diff_lines)
    IN result(unified_diff(splitlines(old_content), splitlines(new_content)))

\* a call of create_unified_diff on the two texts: rlast holds what it returned
create_unified_diff_call ==
    /\ rlast.op = "diff_input"
    /\ rlast' = create_unified_diff(rlast.old, rlast.new)
                  @@ [rlast EXCEPT !.op = "diff"]
    /\ UNCHANGED svars
    /\ UNCHANGED <<user_repos, fs, clones, loop>>

\* every text of at most MaxLines lines, the lines being plain ones, one
\* that starts with "--", one that starts with "++", one with markup
\* characters, one without a line end
DiffTexts ==
    LET DiffLines ==
            {<<"a", "\n">>, <<"b", "\n">>, <<"-", "-", "a", "\n">>,
             <<"+", "+", "b", "\n">>, <<"a", "_", "b", ".", "\n">>, <<"b">>}
    IN {Concat(p) : p \in UNION {[1..n -> DiffLines] : n \in 0..MaxLines}}

\* ================================================================= handlers
\* handle_loadrepo and handle_files as coroutines of the event loop.  Each
\* answers first ("Cloning repository...", "Scanning files..."), which is an
\* await of a network call, then does its work, then awaits the final answer.
LoopStep(u, thread, pc) ==
    /\ loop' = [loop EXCEPT !.thread = thread, !.pc[u] = pc]
    /\ UNCHANGED svars
    /\ UNCHANGED mvars

\* an update with a command of user u arrives
Request(u, cmd) ==
    /\ loop.pc[u] \in {"idle", "done"}
    /\ loop.served + Cardinality({v \in Users : loop.pc[v] \notin {"idle", "done"}})
          < MaxRequests
    /\ loop' = [loop EXCEPT !.pc[u] = "queued", !.req[u] = cmd]
    /\ UNCHANGED svars
    /\ UNCHANGED mvars

\* the loop, its thread free, starts the handler of u's update
Dispatch(u) ==
    /\ loop.thread = None
    /\ loop.pc[u] = "queued"
    /\ LoopStep(u, u, "entered")

\* await update.message.reply_text(...): the handler gives up the thread
AwaitReply(u) ==
    /\ loop.thread = u
    /\ loop.pc[u] = "entered"
    /\ LoopStep(u, None, "awaiting_reply")

\* the network call of the first answer completes
ReplySent(u) ==
    /\ loop.pc[u] = "awaiting_reply"
    /\ LoopStep(u, loop.thread, "ready")

\* the loop, its thread free, resumes the handler: handle_loadrepo goes into
\* clone_or_update_repo, whose awaits of _clone_repo and _update_repo never
\* suspend, up to subprocess.run(['git', ...]); handle_files goes into
\* list_files_in_repo
Resume(u) ==
    /\ loop.thread = None
    /\ loop.pc[u] = "ready"
    /\ LoopStep(u, u, IF loop.req[u] = "loadrepo" THEN "subprocess" ELSE "listing")

\* subprocess.run returns (exit or timeout) to the handler, which has held
\* the thread while it waited; on success _index_repo follows
SubprocessReturns(u) ==
    /\ loop.thread = u
    /\ loop.pc[u] = "subprocess"
    /\ \/ LoopStep(u, u, "indexing")
       \/ LoopStep(u, None, "awaiting_answer")

\* _index_repo or list_files_in_repo returns and the handler awaits its
\* final answer
WorkDone(u) ==
    /\ loop.thread = u
    /\ loop.pc[u] \in {"indexing", "listing"}
    /\ LoopStep(u, None, "awaiting_answer")

\* the network call of the final answer completes and the handler returns
Answered(u) ==
    /\ loop.pc[u] = "awaiting_answer"
    /\ loop' = [loop EXCEPT !.pc[u] = "done", !.served = loop.served + 1]
    /\ UNCHANGED svars
    /\ UNCHANGED mvars

\* ================================================================ bot service
\* TelegramBotService: ALLOWED_USERS and the handlers that act on the store.
\* A handler runs from one await to the next without giving up the thread;
\* every disjunct of a handler below is one such stretch.  In SpecBot loop
\* holds the setting, the list parsed from it and, for each of the two
\* updates that can be in progress, the command, the user, where the handler
\* is, the token send_coding_task holds and how the handler ended.

\* user_string is a str over digits, ",", " " and letters (int() also takes a
\* sign and other white space, which the settings tried do not have)
_parse_user_list(user_string) ==
    LET strip(s) ==
            LET inked == {i \in 1..Len(s) : s[i] # " "}
            IN IF inked = {} THEN <<>>
               ELSE SubSeq(s, CHOOSE i \in inked : \A j \in inked : i <= j,
                              CHOOSE i \in inked : \A j \in inked : i >= j)
        RECURSIVE split(_, _)
        \* s.split(','), cur being the piece begun so far
        split(s, cur) ==
            IF s = <<>> THEN <<cur>>
            ELSE IF Head(s) = "," THEN <<cur>> \o split(Tail(s), <<>>)
            ELSE split(Tail(s), Append(cur, Head(s)))
        digits == <<"0", "1", "2", "3", "4", "5", "6", "7", "8", "9">>
        \* int(e) raises ValueError unless e, stripped, is a run of digits
        is_int(e) ==
            /\ strip(e) # <<>>
            /\ \A i \in 1..Len(strip(e)) : \E d \in 1..10 : digits[d] = strip(e)[i]
        RECURSIVE int(_, _)
        int(e, acc) ==
            IF e = <<>> THEN acc
            ELSE int(Tail(e), 10 * acc + (CHOOSE d \in 1..10 : digits[d] = Head(e)) - 1)
        pieces == split(user_string, <<>>)
    IN IF strip(user_string) = <<>> THEN <<>>
       ELSE IF \A i \in 1..Len(pieces) : is_int(pieces[i])
       THEN [i \in 1..Len(pieces) |-> int(strip(pieces[i]), 0)]
       ELSE <<>>

_is_user_allowed(allowed_users, user_id) ==
    \/ allowed_users = <<>>
    \/ \E i \in 1..Len(allowed_users) : allowed_users[i] = user_id

\* the dispatcher takes an update of user u with command cmd as its task h
process_update(h, u, cmd) ==
    /\ loop.pc[h] \in {"idle", "done"}
    /\ loop.served < MaxRequests
    /\ loop' = [loop EXCEPT !.pc[h] = "queued", !.req[h] = cmd, !.user[h] = u,
                            !.tok[h] = None, !.out[h] = "",
                            !.served = loop.served + 1]
    /\ UNCHANGED svars
    /\ UNCHANGED mvars

\* mutant of handle_start_session: the existing session is looked up before
\* the await of the typing action, the session is created after it
handle_start_session_split(h) ==
    /\ loop.req[h] = "start_session"
    /\ UNCHANGED <<now, ticks, faults>>
    /\ UNCHANGED mvars
    /\ \/ /\ loop.pc[h] = "queued"
          /\ loop' = IF ~_is_user_allowed(loop.allowed_users, loop.user[h])
                     THEN [loop EXCEPT !.pc[h] = "done", !.out[h] = "denied"]
                     ELSE IF ActiveOf(sessions, user_sessions, loop.user[h]) # None
                     THEN [loop EXCEPT !.pc[h] = "replying", !.out[h] = "existing"]
                     ELSE [loop EXCEPT !.pc[h] = "typing"]
          /\ UNCHANGED <<sessions, user_sessions, disk, last>>
       \/ /\ loop.pc[h] = "typing"
          /\ \E token \in Tokens :
                /\ sessions' = Put(sessions, Session(token, loop.user[h], now, now, TRUE))
                /\ user_sessions' = [user_sessions EXCEPT ![loop.user[h]] = token]
                /\ disk' = _save_sessions(sessions', "ok", disk)
                /\ last' = Op("create", loop.user[h], token, token, TRUE, "ok")
                /\ loop' = [loop EXCEPT !.pc[h] = "replying", !.out[h] = "created"]

\* handle_start_session: the access check up to the await of the typing
\* action; then get_user_active_session and, when it finds nothing,
\* create_session up to the await of the answer (create_session may raise
\* at its mkdir, which the handler catches)
handle_start_session(h) ==
    /\ loop.req[h] = "start_session"
    /\ UNCHANGED <<now, ticks, faults>>
    /\ UNCHANGED mvars
    /\ \/ /\ loop.pc[h] = "queued"
          /\ loop' = IF _is_user_allowed(loop.allowed_users, loop.user[h])
                     THEN [loop EXCEPT !.pc[h] = "typing"]
                     ELSE [loop EXCEPT !.pc[h] = "done", !.out[h] = "denied"]
          /\ UNCHANGED <<sessions, user_sessions, disk, last>>
       \/ /\ loop.pc[h] = "typing"
          /\ ActiveOf(sessions, user_sessions, loop.user[h]) # None
          /\ last' = OpNote("get_active", loop.user[h], None,
                            ActiveOf(sessions, user_sessions, loop.user[h]),
                            TRUE, "none", "")
          /\ loop' = [loop EXCEPT !.pc[h] = "replying", !.out[h] = "existing"]
          /\ UNCHANGED <<sessions, user_sessions, disk>>
       \/ /\ loop.pc[h] = "typing"
          /\ ActiveOf(sessions, user_sessions, loop.user[h]) = None
          /\ \E token \in Tokens :
                /\ sessions' = Put(sessions, Session(token, loop.user[h], now, now, TRUE))
                /\ user_sessions' = [user_sessions EXCEPT ![loop.user[h]] = token]
                /\ disk' = _save_sessions(sessions', "ok", disk)
                /\ last' = Op("create", loop.user[h], token, token, TRUE, "ok")
                /\ loop' = [loop EXCEPT !.pc[h] = "replying", !.out[h] = "created"]
       \/ /\ loop.pc[h] = "typing"
          /\ ActiveOf(sessions, user_sessions, loop.user[h]) = None
          /\ user_sessions' = HealedMapping(sessions, user_sessions, loop.user[h])
          /\ last' = OpNote("create", loop.user[h], None, None, FALSE, "none", "raised")
          /\ loop' = [loop EXCEPT !.pc[h] = "replying", !.out[h] = "raised"]
          /\ UNCHANGED <<sessions, disk>>

\* handle_end_session: the access check and end_user_session, with no await
\* before the answer
handle_end_session(h) ==
    /\ loop.req[h] = "end_session"
    /\ loop.pc[h] = "queued"
    /\ UNCHANGED <<now, ticks>>
    /\ UNCHANGED mvars
    /\ \/ /\ ~_is_user_allowed(loop.allowed_users, loop.user[h])
          /\ loop' = [loop EXCEPT !.pc[h] = "done", !.out[h] = "denied"]
          /\ UNCHANGED <<sessions, user_sessions, disk, faults, last>>
       \/ /\ _is_user_allowed(loop.allowed_users, loop.user[h])
          /\ user_sessions[loop.user[h]] # None
          /\ end_session_ret(sessions, user_sessions[loop.user[h]])
          /\ end_session_body(user_sessions[loop.user[h]], "ok")
          /\ last' = Op("end_user", loop.user[h], user_sessions[loop.user[h]],
                        None, TRUE, "ok")
          /\ loop' = [loop EXCEPT !.pc[h] = "replying", !.out[h] = "ended"]
       \/ /\ _is_user_allowed(loop.allowed_users, loop.user[h])
          /\ ~(/\ user_sessions[loop.user[h]] # None
               /\ end_session_ret(sessions, user_sessions[loop.user[h]]))
          /\ last' = Op("end_user", loop.user[h], None, None, FALSE, "none")
          /\ loop' = [loop EXCEPT !.pc[h] = "replying", !.out[h] = "nothing"]
          /\ UNCHANGED <<sessions, user_sessions, disk, faults>>

\* handle_coding_task: the access check up to the await of the typing
\* action; send_coding_task up to its await of run_in_executor; then
\* update_session(session.token), unless subprocess.run raised, up to the
\* await of the answer
handle_coding_task(h) ==
    /\ loop.req[h] = "coding_task"
    /\ UNCHANGED <<now, ticks, faults>>
    /\ UNCHANGED mvars
    /\ \/ /\ loop.pc[h] = "queued"
          /\ loop' = IF _is_user_allowed(loop.allowed_users, loop.user[h])
                     THEN [loop EXCEPT !.pc[h] = "typing"]
                     ELSE [loop EXCEPT !.pc[h] = "done", !.out[h] = "denied"]
          /\ UNCHANGED <<sessions, user_sessions, disk, last>>
       \/ /\ loop.pc[h] = "typing"
          /\ user_sessions' = HealedMapping(sessions, user_sessions, loop.user[h])
          /\ last' = OpNote("get_active", loop.user[h], None,
                            ActiveOf(sessions, user_sessions, loop.user[h]),
                            TRUE, "none",
                            IF user_sessions' # user_sessions THEN "healed" ELSE "")
          /\ loop' = IF ActiveOf(sessions, user_sessions, loop.user[h]) = None
                     THEN [loop EXCEPT !.pc[h] = "replying", !.out[h] = "no_session"]
                     ELSE [loop EXCEPT !.pc[h] = "executor",
                             !.tok[h] = ActiveOf(sessions, user_sessions, loop.user[h])]
          /\ UNCHANGED <<sessions, disk>>
       \/ /\ loop.pc[h] = "executor"
          /\ Has(sessions, loop.tok[h])
          /\ sessions' = [sessions EXCEPT ![Idx(sessions, loop.tok[h])].last_used = now]
          /\ disk' = _save_sessions(sessions', "ok", disk)
          /\ last' = Op("update", None, loop.tok[h], None, TRUE, "ok")
          /\ loop' = [loop EXCEPT !.pc[h] = "replying", !.out[h] = "ran"]
          /\ UNCHANGED user_sessions
       \/ /\ loop.pc[h] = "executor"
          /\ loop' = [loop EXCEPT !.pc[h] = "replying", !.out[h] = "timed_out"]
          /\ UNCHANGED <<sessions, user_sessions, disk, last>>

\* the await of the handler's answer completes and the handler returns
reply_sent(h) ==
    /\ loop.pc[h] = "replying"
    /\ loop' = [loop EXCEPT !.pc[h] = "done"]
    /\ UNCHANGED svars
    /\ UNCHANGED mvars

\* ============================================================ specifications
\* the store over a sessions file that can always be written
Next == Ops({"ok"}) \/ Tick

Spec == Init /\ [][Next]_vars

\* the batches imported while writes may fail: no record or MaxBatch records
FaultBatches ==
    {<<>>} \cup [1..MaxBatch -> RepeatDicts]

\* the store over a sessions file whose writes may fail
NextFaults == OpsOver(SaveOutcomes, FaultBatches) \/ Tick

SpecFaults == Init /\ [][NextFaults]_vars

\* the repository cache
RepoOps ==
    \/ \E u \in Users, url \in UrlInputs, g \in GitRuns :
          clone_or_update_repo(u, url, g)
    \/ \E u \in Users, rel \in RelPaths : list_files_in_repo(u, rel)

SpecRepo == Init /\ [][RepoOps]_vars

\* validate_github_url over every input
InitUrl ==
    /\ sessions = <<>>
    /\ user_sessions = [u \in Users |-> None]
    /\ disk = NoFile
    /\ now = 0
    /\ ticks = 0
    /\ faults = 0
    /\ last = Op("init", None, None, None, TRUE, "none")
    /\ user_repos = [u \in {} |-> 0]
    /\ fs = [dirs |-> {<<>>, Cwd, Cwd \o base_repos_dir}, files |-> {}]
    /\ clones = 0
    /\ loop = LoopIdle
    /\ \E url \in UrlStrings : rlast = UrlArg(url)

SpecUrl == InitUrl /\ [][validate_github_url_call]_vars

\* a call of _index_repo on the tree that is on the disk
_index_repo_call ==
    /\ rlast.op = "index_input"
    /\ rlast' = [rlast EXCEPT !.op = "index", !.info = _index_repo(rlast.top, fs)]
    /\ UNCHANGED svars
    /\ UNCHANGED <<user_repos, fs, clones, loop>>

\* the trees given to _index_repo, all with the root /r: any of eight files
\* (a dotfile with a suffix, files in .git and below it, in a .git further
\* down, with an upper-case suffix, an unknown suffix, no suffix), the
\* directories they need and any of three more
InitIndex ==
    LET top == << <<"r">> >>
        git == Append(top, GitDir)
        sub == Append(top, <<"s">>)
        pool == {Append(top, <<"a", ".", "p", "y">>),
                 Append(top, <<".", "b", ".", "j", "s">>),
                 Append(git, <<"c", ".", "s", "h">>),
                 Append(Append(git, <<"d">>), <<"e", ".", "g", "o">>),
                 Append(Append(sub, GitDir), <<"f", ".", "r", "b">>),
                 Append(sub, <<"g", ".", "M", "D">>),
                 Append(sub, <<"h", ".", "z", "z">>),
                 Append(top, <<"i">>)}
        above(q) == {SubSeq(q, 1, n) : n \in 0..(Len(q) - 1)}
        IndexTrees ==
            {[top |-> top, files |-> F,
                dirs |-> {<<>>, top} \cup D \cup UNION {above(q) : q \in F}] :
                  F \in SUBSET pool, D \in SUBSET {git, sub, Append(top, <<"t">>)}}
    IN
    /\ sessions = <<>>
    /\ user_sessions = [u \in Users |-> None]
    /\ disk = NoFile
    /\ now = 0
    /\ ticks = 0
    /\ faults = 0
    /\ last = Op("init", None, None, None, TRUE, "none")
    /\ user_repos = [u \in {} |-> 0]
    /\ clones = 0
    /\ loop = LoopIdle
    /\ \E t \in IndexTrees :
          /\ fs = [dirs |-> t.dirs, files |-> t.files]
          /\ rlast = [op |-> "index_input", user |-> None, success |-> TRUE,
                      kind |-> "", has_path |-> FALSE, path |-> NoPath,
                      calls |-> <<>>, none |-> FALSE, entries |-> {},
                      top |-> t.top, info |-> <<>>]

SpecIndex == InitIndex /\ [][_index_repo_call]_vars

\* create_unified_diff over every pair of texts
InitDiff ==
    /\ sessions = <<>>
    /\ user_sessions = [u \in Users |-> None]
    /\ disk = NoFile
    /\ now = 0
    /\ ticks = 0
    /\ faults = 0
    /\ last = Op("init", None, None, None, TRUE, "none")
    /\ user_repos = [u \in {} |-> 0]
    /\ fs = [dirs |-> {<<>>, Cwd, Cwd \o base_repos_dir}, files |-> {}]
    /\ clones = 0
    /\ loop = LoopIdle
    /\ \E old_content \in DiffTexts, new_content \in DiffTexts :
          rlast =
            [op |-> "diff_input", user |-> None, success |-> TRUE, kind |-> "",
             has_path |-> FALSE, path |-> NoPath, calls |-> <<>>, none |-> FALSE,
             entries |-> {}, old |-> old_content, new |-> new_content,
             lines |-> <<>>, parts |-> <<>>, out |-> <<>>]

SpecDiff == InitDiff /\ [][create_unified_diff_call]_vars

\* the handlers on the event loop
NextLoop ==
    \/ \E u \in Users, cmd \in {"loadrepo", "files"} : Request(u, cmd)
    \/ \E u \in Users : Dispatch(u)
    \/ \E u \in Users : AwaitReply(u)
    \/ \E u \in Users : ReplySent(u)
    \/ \E u \in Users : Resume(u)
    \/ \E u \in Users : SubprocessReturns(u)
    \/ \E u \in Users : WorkDone(u)
    \/ \E u \in Users : Answered(u)

SpecLoop == Init /\ [][NextLoop]_vars

\* SessionManager.__init__ over a sessions file of at most MaxFile records,
\* each an active record, an ended record created OldTime ago, or a record
\* that lacks the keys from_dict reads
InitLoad ==
    /\ now = 0
    /\ ticks = 0
    /\ faults = 0
    /\ last = Op("init", None, None, None, TRUE, "none")
    /\ RepoInit
    /\ \E file \in UNION {[1..n -> {d \in ImportDicts :
                                        /\ DictOk(d) => "is_active" \in DOMAIN d
                                        /\ DictOk(d) =>
                                              (d.is_active <=> d.created_at = isoformat(0))
                                        /\ d.user_id = 1}] : n \in 0..MaxFile} :
          LET loaded == _load_sessions([state |-> "ok", data |-> file])
              cleaned == _cleanup_old_sessions(loaded.ss) IN
          /\ sessions = cleaned
          /\ user_sessions = loaded.us
          /\ disk = IF Len(cleaned) # Len(loaded.ss)
                    THEN _save_sessions(cleaned, "ok", [state |-> "ok", data |-> file])
                    ELSE [state |-> "ok", data |-> file]

\* the operations that write the sessions file, a new start and the clock
NextLoad ==
    \/ \E u \in Users, t \in Tokens, m \in BOOLEAN : create_session(u, t, m, "ok")
    \/ \E t \in Tokens : update_session(t, "ok")
    \/ \E t \in Tokens : end_session(t, "ok")
    \/ \E u \in Users : end_user_session(u, "ok")
    \/ Restart("ok")
    \/ Tick

SpecLoad == InitLoad /\ [][NextLoad]_vars

\* TelegramBotService.__init__ over an empty store, ALLOWED_USERS being one
\* of: unset, blank, one id, both ids, padded with spaces, an id that is no
\* user, an entry that is no integer, an empty entry
InitBot ==
    /\ sessions = <<>>
    /\ user_sessions = [u \in Users |-> None]
    /\ disk = NoFile
    /\ now = 0
    /\ ticks = 0
    /\ faults = 0
    /\ last = Op("init", None, None, None, TRUE, "none")
    /\ user_repos = [u \in {} |-> 0]
    /\ fs = [dirs |-> {<<>>}, files |-> {}]
    /\ clones = 0
    /\ rlast = [op |-> "init", user |-> 0, success |-> TRUE, kind |-> "",
                has_path |-> FALSE, path |-> NoPath,
                calls |-> <<>>, none |-> FALSE, entries |-> {}]
    /\ \E s \in {<<>>, <<" ">>, <<"1">>, <<"1", ",", "2">>,
                  <<" ", "1", " ", ",", "2">>, <<"1", "2">>,
                  <<"1", ",", "x">>, <<"1", ",">>} :
          loop = [setting |-> s, allowed_users |-> _parse_user_list(s),
                  pc |-> [h \in 1..MaxOverlap |-> "idle"],
                  req |-> [h \in 1..MaxOverlap |-> "none"],
                  user |-> [h \in 1..MaxOverlap |-> None],
                  tok |-> [h \in 1..MaxOverlap |-> None],
                  out |-> [h \in 1..MaxOverlap |-> ""],
                  served |-> 0]

\* the updates and the handlers of the bot, and the clock
NextBot ==
    \/ \E h \in 1..MaxOverlap, u \in Users,
          cmd \in {"start_session", "end_session", "coding_task"} :
             process_update(h, u, cmd)
    \/ \E h \in 1..MaxOverlap : handle_start_session(h)
    \/ \E h \in 1..MaxOverlap : handle_end_session(h)
    \/ \E h \in 1..MaxOverlap : handle_coding_task(h)
    \/ \E h \in 1..MaxOverlap : reply_sent(h)
    \/ Tick

SpecBot == InitBot /\ [][NextBot]_vars


\* ======================================================= SessionStore claims
ActiveRecords(ss, u) == {i \in DOMAIN ss : ss[i].user_id = u /\ ss[i].is_active}

\* C1: in every reachable state at most one session record per owner is
\* active (so after a second createSession for a user the older record is
\* there but inactive).
C1_AtMostOneActivePerUser ==
    \A u \in Users : Cardinality(ActiveRecords(sessions, u)) <= 1

\* where a lexical path points once its "." and ".." are resolved, whatever
\* exists on the disk
RECURSIVE Collapse(_, _)
Collapse(cur, parts) ==
    IF parts = <<>> THEN cur
    ELSE IF Head(parts) = DotDot THEN Collapse(Parent(cur), Tail(parts))
    ELSE Collapse(Append(cur, Head(parts)), Tail(parts))
UserRoot(u) == Cwd \o base_repos_dir \o <<str(u)>>
StrictlyInside(dir, path) == IsPrefix(dir, path) /\ path # dir

\* C2: the directory clone_or_update_repo computes for a user and an accepted
\* owner/repo lies strictly inside <base_repos_dir>/<user_id>, and is neither
\* equal to nor inside the directory of another user, also when owner or repo
\* are "." or "..".
C2_RepoDirConfined ==
    (rlast.op = "clone_or_update" /\ rlast.has_path) =>
        LET at == Collapse(Cwd, rlast.path.parts) IN
        /\ StrictlyInside(UserRoot(rlast.user), at)
        /\ \A b \in Users \ {rlast.user} : ~IsPrefix(UserRoot(b), at)

\* C3: list_files_in_repo with a relative path that resolves outside the root
\* of the user's repository returns an empty list.
C3_ListOutsideRootEmpty ==
    (rlast.op = "list" /\ ~rlast.none /\ rlast.user \in DOMAIN user_repos) =>
        LET repo_path == user_repos[rlast.user].path
            root == Collapse(Cwd, repo_path.parts)
            target == JoinLex(repo_path, rlast.path)
            at == Collapse(IF target.abs THEN <<>> ELSE Cwd, target.parts)
        IN ~IsPrefix(root, at) => rlast.entries = {}

\* C4: validate(token, userId) returns the session exactly when a record with
\* that token exists, is active, is owned by userId and was used less than 24h
\* ago; when it exists, is active and owned but was last used 24h ago or
\* more, the call leaves it inactive and returns None.
C4_ValidateIffFresh ==
    [][last'.op = "validate" =>
        LET t == last'.token
            u == last'.user
            mine == \E i \in DOMAIN sessions :
                        /\ sessions[i].token = t
                        /\ sessions[i].is_active
                        /\ sessions[i].user_id = u
            age == now - Get(sessions, t).last_used
        IN /\ last'.ret = t <=> (mine /\ age < 24 * 3600)
           /\ last'.ret \in {t, None}
           /\ (mine /\ age >= 24 * 3600) => ~Get(sessions', t).is_active
    ]_vars

\* a validate of a session idle for 24h or more has just expired it
C4_Witness ==
    /\ last.op = "validate"
    /\ last.note = "expired"
    /\ last.ret = None
    /\ ~Get(sessions, last.token).is_active
    /\ now - Get(sessions, last.token).last_used >= 24 * 3600

\* C5: the token createSession returns is the token of no record already in
\* the store, and createSession leaves every existing record as it was.
C5_CreateTokenFresh ==
    [][(last'.op = "create" /\ last'.ok) =>
        /\ ~Has(sessions, last'.ret)
        /\ Len(sessions') = Len(sessions) + 1
        /\ SubSeq(sessions', 1, Len(sessions)) = sessions
    ]_vars

\* C6: when an operation that changed a session record has returned and its
\* write did not fail, the sessions file holds exactly the records in memory
\* (a restart would load the same records with the same active flags).
C6_DurableEqualsMemory ==
    [][(sessions' # sessions /\ last'.op # "restart" /\ last'.saved # "failed") =>
        /\ disk'.state = "ok"
        /\ _load_sessions(disk').ss = sessions'
    ]_vars

\* the steps after which C7 lets getActiveSession(u) stop returning s
C7_Released(u, s) ==
    \/ last'.op \in {"end", "end_user"} /\ last'.token = s /\ last'.ok
    \/ last'.op = "validate" /\ last'.token = s /\ last'.note = "expired"
    \/ last'.op = "create" /\ last'.user = u
    \/ /\ last'.op = "import"
       /\ \E i \in DOMAIN sessions' :
             /\ ~Has(sessions, sessions'[i].token)
             /\ sessions'[i].user_id = u
             /\ sessions'[i].is_active
    \/ last'.op = "restart"

\* C7: right after createSession(u) returned s, getActiveSession(u) returns
\* s, and it goes on returning s, a record owned by u, until s is ended,
\* expired by validate, or superseded by a create or import for u; what other
\* users create changes nothing of it.
C7_ActiveUntilReleased ==
    [][\A u \in Users :
        /\ (last'.op = "create" /\ last'.ok /\ last'.user = u) =>
              /\ ActiveOf(sessions', user_sessions', u) = last'.ret
              /\ Get(sessions', last'.ret).user_id = u
        /\ LET s == ActiveOf(sessions, user_sessions, u) IN
           (s # None /\ Get(sessions, s).user_id = u /\ ~C7_Released(u, s)) =>
              /\ ActiveOf(sessions', user_sessions', u) = s
              /\ Get(sessions', s).user_id = u
    ]_vars

\* the steps after which C8 lets getActiveSession(u) return a session again
C8_Reopened(u) ==
    \/ last'.op = "create" /\ last'.user = u /\ last'.ok
    \/ /\ last'.op = "import"
       /\ \E i \in DOMAIN sessions' :
             /\ ~Has(sessions, sessions'[i].token)
             /\ sessions'[i].user_id = u
             /\ sessions'[i].is_active
    \/ last'.op = "restart"

\* C8: once endUserSession(u) has returned, getActiveSession(u) returns None,
\* and goes on returning None until the next createSession for u or import
\* of an active record of u; stated of the step that returns from
\* endUserSession(u) and of the operation that follows it.
C8_NoneAfterEndUser ==
    [][\A u \in Users :
        /\ (last'.op = "end_user" /\ last'.user = u) =>
              ActiveOf(sessions', user_sessions', u) = None
        /\ (last.op = "end_user" /\ last.user = u /\ ~C8_Reopened(u)) =>
              /\ ActiveOf(sessions', user_sessions', u) = None
              /\ (last'.op = "get_active" /\ last'.user = u) => last'.ret = None
    ]_vars

C9_FoundActive(t) == Has(sessions, t) /\ Get(sessions, t).is_active

\* what C9 says of a step
C9_Step ==
    /\ last'.op = "end" =>
          LET t == last'.token IN
          /\ last'.ok <=> C9_FoundActive(t)
          /\ last'.ok =>
                /\ ~Get(sessions', t).is_active
                /\ user_sessions'[Get(sessions', t).user_id] = None
          /\ ~last'.ok => UNCHANGED <<sessions, user_sessions, disk>>
    /\ \A u \in Users :
          (last'.op = "end_user" /\ last'.user = u /\ user_sessions[u] = None) =>
              /\ ~last'.ok
              /\ UNCHANGED <<sessions, user_sessions, disk>>

\* C9: endSession(token) returns true exactly when this call found
\* the session and ended it (it was still active), false with nothing changed
\* otherwise; after true the record is inactive and its owner unmapped;
\* endUserSession(u) returns false and changes nothing when u has no mapping.
C9_TrueIffEndedByCall == [][C9_Step]_vars

\* C10: getActiveSession(u) never changes a session record; if u's mapping
\* points to a missing or inactive record it removes that entry and returns
\* None; if it points to an existing active record it returns that record
\* and changes nothing.
C10_SelfHealing ==
    [][\A u \in Users : (last'.op = "get_active" /\ last'.user = u) =>
        LET t == user_sessions[u]
            live == \E i \in DOMAIN sessions :
                        sessions[i].token = t /\ sessions[i].is_active
        IN /\ sessions' = sessions
           /\ disk' = disk
           /\ (t # None /\ ~live) =>
                 /\ last'.ret = None
                 /\ user_sessions' = [user_sessions EXCEPT ![u] = None]
           /\ (t # None /\ live) =>
                 /\ last'.ret = t
                 /\ user_sessions' = user_sessions
           /\ t = None => (last'.ret = None /\ user_sessions' = user_sessions)
    ]_vars

\* getActiveSession has just dropped a stale mapping
C10_Witness ==
    /\ last.op = "get_active"
    /\ last.note = "healed"
    /\ last.ret = None
    /\ user_sessions[last.user] = None
\* the records in the sessions file d, in stored order
C11_Stored(d) == _load_sessions(d).ss
C11_Old(r, t) == ~r.is_active /\ t - r.created_at > 7 * 24 * 3600

C12_IndexAfterStart ==
    [][last'.op = "restart" =>
        LET stored == C11_Stored(disk) IN
        \A u \in Users :
            LET act == {i \in DOMAIN stored :
                           stored[i].user_id = u /\ stored[i].is_active}
            IN /\ user_sessions'[u] # None <=> act # {}
               /\ act # {} =>
                     user_sessions'[u] =
                         stored[CHOOSE i \in act : \A j \in act : j <= i].token
               /\ user_sessions'[u] # None =>
                     \E j \in DOMAIN sessions' :
                         /\ sessions'[j].token = user_sessions'[u]
                         /\ sessions'[j].is_active
                         /\ sessions'[j].user_id = u
    ]_vars

\* a start has just loaded two active records of one user
C12_Witness ==
    /\ last.op = "restart"
    /\ \E u \in Users :
          /\ Cardinality(ActiveRecords(sessions, u)) = 2
          /\ user_sessions[u] = sessions[Len(sessions)].token

\* the store a fresh, empty store becomes when export_sessions() of the
\* current one is imported into it
C13_Imported ==
    ImportAll([ss |-> <<>>, us |-> [u \in Users |-> None], n |-> 0],
              export_sessions(sessions))

\* C13: importing the export of the store into a fresh, empty store gives
\* every user the active session (the same token, or None) that the user has
\* in the store.
C13_RoundTrip ==
    \A u \in Users :
        ActiveOf(C13_Imported.ss, C13_Imported.us, u)
            = ActiveOf(sessions, user_sessions, u)

C14_Tokens(ss) == {ss[i].token : i \in DOMAIN ss}
\* the tokens of the well-formed records of a batch
C14_BatchTokens(b) == {b[i].token : i \in {j \in DOMAIN b : DictOk(b[j])}}

\* C14: from every state of the store and for every batch, import_sessions
\* leaves the records already stored as they are, adds one record for every
\* token of the batch that is new, and returns the number of records added (a
\* token twice in the batch is added and counted once).
C14_ImportFrame ==
    \A b \in Batches :
        LET r == ImportAll([ss |-> sessions, us |-> user_sessions, n |-> 0], b)
            new == C14_BatchTokens(b) \ C14_Tokens(sessions)
        IN /\ SubSeq(r.ss, 1, Len(sessions)) = sessions
           /\ C14_Tokens(r.ss) = C14_Tokens(sessions) \cup new
           /\ Len(r.ss) = Len(sessions) + Cardinality(new)
           /\ r.n = Cardinality(new)

\* import_sessions has just added one record of a batch to the empty store
\* and left out another record of that batch
C14_Witness ==
    /\ last.op = "import"
    /\ last.ret = 1
    /\ last.note = "skipped"
    /\ Len(sessions) = 1
\* ========================================================= RepoCache claims
\* the path p names something on the disk f
C15_OnDisk(p, f) == Resolve(p, f).ok /\ Resolve(p, f).path \in f.dirs \cup f.files
C15_Pulls(calls) == {i \in DOMAIN calls : calls[i] \in {PullMain, PullMaster}}
C15_Clones(calls) == {i \in DOMAIN calls : calls[i] = CloneCall}

\* C15: a clone_or_update_repo that gets to its repository directory pulls
\* and never clones when the directory exists, clones and never pulls when it
\* does not, and on success reports "updated" exactly in the first case and
\* "cloned" exactly in the second.
C15_UpdateOrClone ==
    [][(rlast'.op = "clone_or_update" /\ rlast'.has_path) =>
        LET was == C15_OnDisk(rlast'.path, fs) IN
        /\ was => (C15_Pulls(rlast'.calls) # {} /\ C15_Clones(rlast'.calls) = {})
        /\ ~was => (C15_Clones(rlast'.calls) # {} /\ C15_Pulls(rlast'.calls) = {})
        /\ rlast'.success =>
              /\ rlast'.kind = "updated" <=> was
              /\ rlast'.kind = "cloned" <=> ~was
    ]_vars

\* an update of a directory cloned before has just succeeded
C15_Witness ==
    /\ rlast.op = "clone_or_update"
    /\ rlast.success
    /\ rlast.kind = "updated"
    /\ clones = 1

\* C16: an update fails only after the pull of main and then the pull of
\* master were both run, and whenever master is pulled main was pulled before.
C16_FallbackBeforeGivingUp ==
    (rlast.op = "clone_or_update" /\ rlast.kind \in {"updated", "update_error"}) =>
        /\ rlast.kind = "update_error" =>
              rlast.calls = <<VersionCall, PullMain, PullMaster>>
        /\ rlast.calls \in {<<VersionCall, PullMain>>,
                            <<VersionCall, PullMain, PullMaster>>}

\* C17: after a successful clone_or_update_repo the user's entry of
\* user_repos is the repository just loaded (owner, repo, canonical URL, the
\* directory under the user's root, the index of the directory as it is after
\* the call), whatever the entry was before, and the entries of the other
\* users are unchanged.
C17_MappingReplaced ==
    [][(rlast'.op = "clone_or_update" /\ rlast'.success) =>
        LET u == rlast'.user
            rec == user_repos'[u]
        IN /\ DOMAIN user_repos' = DOMAIN user_repos \cup {u}
           /\ \A v \in DOMAIN user_repos \ {u} : user_repos'[v] = user_repos[v]
           /\ DOMAIN rec = {"owner", "repo", "url", "path", "info"}
           /\ rec.url = HttpsGithub \o rec.owner \o <<"/">> \o rec.repo
           /\ rec.path = rlast'.path
           /\ rec.path = LexPath(FALSE, base_repos_dir \o <<str(u), rec.owner, rec.repo>>)
           /\ rec.info = _index_repo(Resolve(rec.path, fs').path, fs')
    ]_vars

\* a user who had cloned o/r has just loaded another repository by an update
C17_Witness ==
    /\ rlast.op = "clone_or_update"
    /\ rlast.success
    /\ rlast.kind = "updated"
    /\ user_repos[rlast.user].owner = DotDot
    /\ UserRoot(rlast.user) \o << <<"o">>, <<"r">>, SrcDir >> \in fs.dirs
\* a non-empty component without '/'
C18_NoSlash(c) == c # <<>> /\ \A i \in DOMAIN c : c[i] # "/"
\* owner/repo
C18_OwnerRepo(r) ==
    \E i \in DOMAIN r :
        /\ r[i] = "/"
        /\ C18_NoSlash(SubSeq(r, 1, i - 1))
        /\ C18_NoSlash(SubSeq(r, i + 1, Len(r)))
\* u without the suffix suf, u itself when it does not end with suf
C18_Cut(u, suf) ==
    IF Len(u) >= Len(suf) /\ SubSeq(u, Len(u) - Len(suf) + 1, Len(u)) = suf
    THEN SubSeq(u, 1, Len(u) - Len(suf))
    ELSE u
\* u without its trailing slashes
C18_Trim(u) ==
    LET n == CHOOSE k \in 0..Len(u) :
                 /\ k = 0 \/ u[k] # "/"
                 /\ \A j \in (k + 1)..Len(u) : u[j] = "/"
    IN SubSeq(u, 1, n)
\* pre followed by owner/repo, with one more slash when slash is set
C18_Full(c, pre, slash) ==
    /\ Len(c) >= Len(pre)
    /\ SubSeq(c, 1, Len(pre)) = pre
    /\ LET r == SubSeq(c, Len(pre) + 1, Len(c)) IN
       C18_OwnerRepo(IF slash THEN C18_Cut(r, <<"/">>) ELSE r)
\* the forms the claim names: the https form or the shorthand, then an
\* optional '.git', then an optional slash
C18_Stated(u) ==
    LET c == C18_Cut(C18_Cut(u, <<"/">>), DotGit) IN
    C18_OwnerRepo(c) \/ C18_Full(c, HttpsGithub, FALSE)
\* the forms accepted: all trailing slashes and then one '.git' removed, the
\* http or https form with an optional slash, or the shorthand
C18_Accepted(u) ==
    LET c == C18_Cut(C18_Trim(u), DotGit) IN
    \/ C18_OwnerRepo(c)
    \/ \E pre \in {HttpsGithub, HttpGithub} : C18_Full(c, pre, TRUE)
C18_Canonical == HttpsGithub \o <<"o", "/", "o">>
\* the inputs the claim names, over the one-letter names of the model
C18_Examples ==
    /\ rlast.arg \in {<<"o", "/", "o">>, C18_Canonical \o DotGit,
                      C18_Canonical \o <<"/">>}
          => rlast.success /\ rlast.url = C18_Canonical
    /\ rlast.arg \in {<<"o">>, HttpsGitlab \o <<"o", "/", "o">>,
                      <<"o", "/", "o", "/", "o">>}
          => ~rlast.success

\* C18 as stated: validate_github_url accepts exactly the https form and the
\* shorthand, each optionally followed by '.git' and/or one trailing slash,
\* the named inputs give https://github.com/o/o and the named bad inputs fail.
C18_AcceptsExactlyStated ==
    rlast.op = "validate" =>
        /\ rlast.success <=> C18_Stated(rlast.arg)
        /\ C18_Examples

\* C18 amended: validate_github_url accepts exactly the inputs that, all
\* trailing slashes and then one trailing '.git' removed, are the http or
\* https github.com/owner/repo form with an optional slash or the owner/repo
\* shorthand; the named inputs give https://github.com/o/o and the named bad
\* inputs fail.
C18_AcceptsExactly ==
    rlast.op = "validate" =>
        /\ rlast.success <=> C18_Accepted(rlast.arg)
        /\ C18_Examples

\* an http URL with a trailing slash was accepted
C18_Witness ==
    /\ rlast.op = "validate"
    /\ rlast.success
    /\ rlast.arg = HttpGithub \o <<"o", "/", "o", "/">>

\* C19: a URL returned by validate_github_url ends neither in '.git' nor in
\* '/', and validate_github_url applied to it returns it again.
C19_CanonicalIdempotent ==
    rlast.op = "validate" =>
        /\ rlast.success =>
              /\ C18_Cut(rlast.url, DotGit) = rlast.url
              /\ C18_Cut(rlast.url, <<"/">>) = rlast.url
        /\ rlast.again => (rlast.success /\ rlast.url = rlast.arg)
\* the target of the last listing is an existing directory
C20_TargetIsDir ==
    LET t == Resolve(JoinLex(user_repos[rlast.user].path, rlast.path), fs) IN
    t.ok /\ t.path \in fs.dirs

\* C20: list_files_in_repo returns None exactly when the user has no entry
\* in user_repos; when the user has one and the target does not exist or is
\* not a directory, it returns an empty list and does not raise.
C20_NoneIffNoRepo ==
    rlast.op = "list" =>
        /\ rlast.none <=> rlast.user \notin DOMAIN user_repos
        /\ (rlast.user \in DOMAIN user_repos /\ ~C20_TargetIsDir) =>
              /\ rlast.success
              /\ rlast.kind # "OSError"
              /\ rlast.entries = {}
C22_WriteFailed == last'.saved = "failed" /\ faults' = faults + 1

\* C22: when the write of the sessions file fails in create_session,
\* update_session, end_session (or end_user_session) or import_sessions, the
\* call returns what it returns otherwise and self.sessions and
\* self.user_sessions hold the mutation; the operations that follow answer
\* from that memory.
C22_Step ==
    /\ (C22_WriteFailed /\ last'.op = "create") =>
          /\ last'.ok /\ last'.ret = last'.token
          /\ Has(sessions', last'.token)
          /\ Get(sessions', last'.token) =
                Session(last'.token, last'.user, now, now, TRUE)
          /\ user_sessions'[last'.user] = last'.token
    /\ (C22_WriteFailed /\ last'.op = "update") =>
          /\ Has(sessions, last'.token)
          /\ sessions' = [sessions EXCEPT ![Idx(sessions, last'.token)].last_used = now]
          /\ user_sessions' = user_sessions
    /\ (C22_WriteFailed /\ last'.op \in {"end", "end_user"}) =>
          /\ last'.ok
          /\ Has(sessions, last'.token)
          /\ ~Get(sessions', last'.token).is_active
          /\ user_sessions'[Get(sessions, last'.token).user_id] = None
    /\ (C22_WriteFailed /\ last'.op = "import") =>
          /\ last'.ok /\ last'.ret > 0
          /\ Len(sessions') = Len(sessions) + last'.ret
          /\ SubSeq(sessions', 1, Len(sessions)) = sessions
    /\ (last'.op \in {"validate", "get_active"} /\ last'.ret # None) =>
          /\ Has(sessions, last'.ret)
          /\ Get(sessions, last'.ret).is_active

C22_MemoryKeepsMutation == [][C22_Step]_vars

\* a session whose record never reached the file has just been validated
C22_Witness ==
    /\ last.op = "validate"
    /\ last.ret # None
    /\ faults = 1
    /\ disk.state # "ok"
\* C23: no operation ends by raising: create_session with a working
\* directory that cannot be made returns a failure, and list_files_in_repo
\* returns a list or None.
C23_NoFaultEscapes ==
    /\ last.note # "raised"
    /\ (last.op = "create" /\ ~last.ok) => last.note = "failed"
    /\ rlast.kind # "OSError"
\* ================================================================ scheduling
\* C24: while the handler of one user is inside subprocess.run of a clone or
\* pull, a request of another user can be started, can be resumed and can
\* finish its work: the step of the other handler that is due is enabled.
C24_OthersNotStalled ==
    \A u, v \in Users :
        (u # v /\ loop.pc[u] = "subprocess") =>
            /\ loop.pc[v] = "queued" => ENABLED Dispatch(v)
            /\ loop.pc[v] = "ready" => ENABLED Resume(v)
\* ================================================= SessionStore claims, II
\* validate_session cannot return the session t: it is inactive, or it was
\* last used 24 hours ago or more
C28_Expired(ss, t, time) ==
    Has(ss, t) /\ (~Get(ss, t).is_active \/ time - Get(ss, t).last_used >= IdleExpiry)
\* C28: idle expiry is final: when a session has been idle for 24 hours (or
\* is inactive), no call of get_user_active_session, update_session or
\* validate_session leaves a state in which validate_session returns it, so
\* no sequence of such calls brings it back.
C28_Step ==
    \A t \in Tokens :
        (/\ C28_Expired(sessions, t, now)
         /\ last'.op \in {"get_active", "update", "validate"})
        => C28_Expired(sessions', t, now')
C28_ExpiryIsFinal == [][C28_Step]_vars

\* the record of t is active before the step and inactive after it
C29_BecomesInactive(t) ==
    /\ Has(sessions, t) /\ Get(sessions, t).is_active
    /\ Has(sessions', t) /\ ~Get(sessions', t).is_active
    /\ Get(sessions', t).user_id = Get(sessions, t).user_id
\* C29: a record is kept for the whole retention window that starts when it
\* becomes inactive: at the moment a record is ended or expires, the clean-up
\* of a start at that moment (and so of any start less than 7 days later)
\* does not delete it, whenever it was created.
C29_Step ==
    \A t \in Tokens :
        C29_BecomesInactive(t) => ~Stale(Get(sessions', t), now')
C29_KeptFromInactivation == [][C29_Step]_vars

\* C30: end_session(token) removes the entry of a user in user_sessions only
\* when that entry is token; when it ends another session of the user, the
\* session get_user_active_session returned for the user before the call is
\* the one it returns after it.
C30_Step ==
    (last'.op = "end" /\ last'.ok) =>
        \A u \in Users :
            user_sessions[u] # last'.token =>
                /\ user_sessions'[u] = user_sessions[u]
                /\ ActiveOf(sessions', user_sessions', u)
                     = ActiveOf(sessions, user_sessions, u)
C30_EndOnlyOwnMapping == [][C30_Step]_vars

\* ======================================================== DiffHelper claims
\* the opening fence of a rendered diff
C25_Fence == <<BackTick, BackTick, BackTick, "d", "i", "f", "f", "\n">>

\* C25: create_unified_diff returns the "no changes" message exactly when
\* the two texts are the same line for line (which, the lines keeping their
\* ends, is when the texts are equal); for any other pair it returns a
\* rendered diff block, which is not that message.
C25_SentinelIffIdentical ==
    rlast.op = "diff" =>
        /\ (rlast.out = NoChanges) <=> (rlast.old = rlast.new)
        /\ (rlast.old = rlast.new) <=> (splitlines(rlast.old) = splitlines(rlast.new))
        /\ rlast.old # rlast.new => startswith(rlast.out, C25_Fence)
\* two texts that differ only in the end of the last line were compared and
\* a diff block came back
C25_Witness ==
    /\ rlast.op = "diff"
    /\ rlast.old = <<"b", "\n">>
    /\ rlast.new = <<"b">>
    /\ rlast.out # NoChanges
    /\ startswith(rlast.out, C25_Fence)
\* new_content is old_content, made of whole lines, followed by more lines
C26_Appended ==
    /\ Len(rlast.new) > Len(rlast.old)
    /\ SubSeq(rlast.new, 1, Len(rlast.old)) = rlast.old
    /\ (rlast.old = <<>> \/ rlast.old[Len(rlast.old)] = "\n")
C26_IsAdded(part) == part[1] = "+"
C26_IsRemoved(part) == part[1] = "-"
\* the entries the appended lines should give: "+", then the escaped line
C26_Expected ==
    [n \in 1..(Len(splitlines(rlast.new)) - Len(splitlines(rlast.old))) |->
        <<"+">> \o _escape_markdown(
                      splitlines(rlast.new)[Len(splitlines(rlast.old)) + n])]
\* C26: when the new text is the old text followed by k more lines, the
\* entries of the returned diff that start with "+" are exactly k, one for
\* each appended line in order and carrying its text, and no entry starts
\* with "-".
C26_OneAddedPerAppendedLine ==
    (rlast.op = "diff" /\ C26_Appended) =>
        /\ SelectSeq(rlast.parts, C26_IsAdded) = C26_Expected
        /\ SelectSeq(rlast.parts, C26_IsRemoved) = <<>>
\* every character of special_chars in text has a backslash before it
C27_Escaped(text) ==
    \A i \in DOMAIN text :
        text[i] \in special_chars => (i > 1 /\ text[i - 1] = "\\")
\* text without its first and last n characters
C27_Inner(text, n) == SubSeq(text, n + 1, Len(text) - n)
\* the last n characters of text
C27_Last(text, n) == SubSeq(text, Len(text) - n + 1, Len(text))
\* C27: the rendered diff has one entry for each line of the diff; the entry
\* of an added, removed or context line begins with the marker of that line,
\* unescaped; the entries of the two header lines and of the hunk markers are
\* wrapped in asterisks; every other markup character of an entry has a
\* backslash before it.
C27_MarkersKept ==
    (rlast.op = "diff" /\ rlast.lines # <<>>) =>
        /\ Len(rlast.parts) = Len(rlast.lines)
        /\ \A n \in DOMAIN rlast.lines :
              IF n <= 2
              THEN /\ startswith(rlast.parts[n], <<"*", "*">>)
                   /\ C27_Last(rlast.parts[n], 2) = <<"*", "*">>
                   /\ C27_Escaped(C27_Inner(rlast.parts[n], 2))
              ELSE IF rlast.lines[n][1] = "@"
              THEN /\ startswith(rlast.parts[n], <<"*">>)
                   /\ C27_Last(rlast.parts[n], 1) = <<"*">>
                   /\ C27_Escaped(C27_Inner(rlast.parts[n], 1))
              ELSE /\ rlast.parts[n][1] = rlast.lines[n][1]
                   /\ C27_Escaped(Tail(rlast.parts[n]))
\* ================================================ SessionStore claims, III
\* C31: ending is durable across a restart: when end_user_session(user_id)
\* returned True and the process is restarted next, get_user_active_session
\* of that user returns None in the new process (no older session of the
\* user is its active session again).
C31_Step ==
    (last.op = "end_user" /\ last.ok /\ last'.op = "restart") =>
        ActiveOf(sessions', user_sessions', last.user) = None
C31_EndSurvivesRestart == [][C31_Step]_vars
\* C32: update_session(token) changes last_used of the record of token and
\* nothing else: no record's is_active or user_id, no entry of user_sessions,
\* no other record; for a token that is not a key nothing changes at all.  So
\* an update that arrives after its session was ended leaves it inactive.
C32_Step ==
    last'.op = "update" =>
        /\ user_sessions' = user_sessions
        /\ DOMAIN sessions' = DOMAIN sessions
        /\ \A i \in DOMAIN sessions :
              sessions'[i] = IF sessions[i].token = last'.token
                             THEN [sessions[i] EXCEPT !.last_used = now]
                             ELSE sessions[i]
        /\ ~Has(sessions, last'.token) => (sessions' = sessions /\ disk' = disk)
C32_UpdateOnlyTouchesLastUsed == [][C32_Step]_vars
\* an update came for a session that had been ended: its last_used moved and
\* it is still inactive
C32_Witness ==
    /\ last.op = "update"
    /\ Has(sessions, last.token)
    /\ ~Get(sessions, last.token).is_active
    /\ Get(sessions, last.token).last_used = now
    /\ Get(sessions, last.token).created_at < now

\* C33: validate_session(token, user_id) for a token that is not a key, a
\* session of another user or an inactive session returns None and changes no
\* record, no entry of user_sessions and not the file; so no user expires,
\* deactivates or obtains the session of another through it.
C33_Step ==
    (/\ last'.op = "validate"
     /\ \/ ~Has(sessions, last'.token)
        \/ Get(sessions, last'.token).user_id # last'.user
        \/ ~Get(sessions, last'.token).is_active)
    => /\ last'.ret = None
       /\ sessions' = sessions
       /\ user_sessions' = user_sessions
       /\ disk' = disk
C33_ValidateOnlyOwn == [][C33_Step]_vars
\* another user asked for a session that is active and idle for 24 hours: it
\* got nothing and the session is still active
C33_Witness ==
    /\ last.op = "validate"
    /\ last.ret = None
    /\ Has(sessions, last.token)
    /\ Get(sessions, last.token).user_id # last.user
    /\ Get(sessions, last.token).is_active
    /\ now - Get(sessions, last.token).last_used >= IdleExpiry
\* =================================================== RepoCache claims, II
\* C34: a clone_or_update_repo that fails, for whatever reason, leaves
\* user_repos as it was, for the caller and for every other user, and a
\* listing afterwards is still answered from the repository that was active.
C34_Step ==
    (rlast'.op = "clone_or_update" /\ ~rlast'.success) =>
        /\ user_repos' = user_repos
        /\ \A u \in DOMAIN user_repos :
              ~list_files_ret(user_repos', u, <<>>, fs').none
C35_Step ==
    \A u \in Users, url \in UrlInputs, g \in GitRuns :
        (rlast'.op = "clone_or_update" /\ rlast'.user = u
           /\ (~g.version \/ ~validate_github_url(url).ok)
           /\ clone_or_update_repo(u, url, g)) =>
            /\ ~validate_github_url(url).ok =>
                  /\ rlast'.kind = "invalid_url"
                  /\ rlast'.calls = <<>>
                  /\ ~rlast'.has_path
                  /\ fs' = fs
            /\ (validate_github_url(url).ok /\ ~g.version) =>
                  /\ rlast'.kind = "git_missing"
                  /\ rlast'.calls = <<VersionCall>>
                  /\ fs' = fs
C35_FailFastInOrder == [][C35_Step]_vars
\* a call with a valid URL found git missing after a repository had been
\* cloned
C35_Witness ==
    /\ rlast.op = "clone_or_update"
    /\ rlast.kind = "git_missing"
    /\ rlast.calls = <<VersionCall>>
    /\ clones > 0
\* the directory of a clone that did not finish: it has .git and no README.md
C36_Partial(p, f) ==
    /\ is_dir(p, f)
    /\ Append(Resolve(p, f).path, GitDir) \in f.dirs
    /\ Append(Resolve(p, f).path, ReadmeMd) \notin f.files
\* C36: no operation removes a directory or a file, so what a failed clone
\* left on disk stays; and a clone_or_update_repo whose repository directory
\* is such a leftover runs git pull in it and never git clone, on the next
\* attempt and on every later one.
C36_Step ==
    /\ fs.dirs \subseteq fs'.dirs
    /\ fs.files \subseteq fs'.files
    /\ (rlast'.op = "clone_or_update" /\ rlast'.has_path
          /\ C36_Partial(rlast'.path, fs)) =>
            /\ C36_Partial(rlast'.path, fs')
            /\ \E i \in DOMAIN rlast'.calls : rlast'.calls[i] = PullMain
            /\ \A i \in DOMAIN rlast'.calls : rlast'.calls[i] # CloneCall
            /\ rlast'.kind \in {"updated", "update_error"}
C36_LeftoverIsUpdated == [][C36_Step]_vars
\* an attempt after a clone that timed out: it pulled in the leftover
\* directory, and the pull failed
C36_Witness ==
    /\ rlast.op = "clone_or_update"
    /\ rlast.has_path
    /\ C36_Partial(rlast.path, fs)
    /\ rlast.kind = "update_error"
    /\ rlast.calls = <<VersionCall, PullMain, PullMaster>>
\* q is a .git directory below top or lies beneath one
C37_InGit(q, top) == \E i \in (Len(top) + 1)..Len(q) : q[i] = GitDir
\* the tree without its .git directories and what is beneath them
C37_NoGit(f, top) ==
    [dirs |-> {d \in f.dirs : ~C37_InGit(d, top)},
     files |-> {q \in f.files : ~C37_InGit(q, top)}]
\* the tree without its dotfiles
C37_NoDotfiles(f) == [f EXCEPT !.files = {q \in @ : Head(Name(q)) # "."}]
\* C37: _index_repo counts neither .git nor anything beneath it: total_files
\* and total_dirs are the numbers of files and directories of the tree
\* without them, and the whole result is the one for that tree; no dotfile
\* gives an extension; languages is the image of extensions under
\* language_map.
C37_IndexSkipsGit ==
    rlast.op = "index" =>
        /\ rlast.info = _index_repo(rlast.top, C37_NoGit(fs, rlast.top))
        /\ rlast.info.total_files = Cardinality(C37_NoGit(fs, rlast.top).files)
        /\ rlast.info.total_dirs
             = Cardinality({d \in C37_NoGit(fs, rlast.top).dirs : Len(d) > Len(rlast.top)})
        /\ rlast.info.extensions
             = _index_repo(rlast.top, C37_NoDotfiles(fs)).extensions
        /\ rlast.info.languages
             = {language_map(e) : e \in rlast.info.extensions} \ {"none"}
\* a tree with files in .git and below it, a dotfile with a suffix and a
\* suffix that is no language was indexed
C37_Witness ==
    /\ rlast.op = "index"
    /\ \E q \in fs.files : C37_InGit(q, rlast.top) /\ suffix(Name(q)) # <<>>
    /\ \E q \in fs.files : Head(Name(q)) = "." /\ suffix(Name(q)) # <<>>
    /\ rlast.info.total_files = 4
    /\ rlast.info.total_dirs = 2
    /\ rlast.info.extensions = {<<".", "p", "y">>, <<".", "m", "d">>, <<".", "z", "z">>}
    /\ rlast.info.languages = {"Python", "Markdown"}
\* ======================================================== bot service claims
\* the only updates so far are two /start_session requests of user u, taken
\* as the tasks h and k
C38_Pair(u, h, k) ==
    /\ h # k
    /\ loop.served = 2
    /\ loop.req[h] = "start_session" /\ loop.user[h] = u
    /\ loop.req[k] = "start_session" /\ loop.user[k] = u
C39_Blank(s) == \A i \in 1..Len(s) : s[i] = " "
\* user id u is listed in the setting: one of its comma-separated entries
\* is the integer u
C39_Listed(s, u) ==
    \E a \in 0..Len(s), b \in 1..(Len(s) + 1) :
        /\ a < b
        /\ a = 0 \/ s[a] = ","
        /\ b = Len(s) + 1 \/ s[b] = ","
        /\ \A i \in (a + 1)..(b - 1) : s[i] # ","
        /\ _parse_user_list(SubSeq(s, a + 1, b - 1)) = <<u>>
C39_Step ==
    (/\ ~C39_Blank(loop.setting)
     /\ <<sessions, user_sessions, disk>>' # <<sessions, user_sessions, disk>>) =>
        \E h \in 1..MaxOverlap :
            /\ loop'.pc[h] # loop.pc[h]
            /\ C39_Listed(loop.setting, loop.user[h])
\* C39: when ALLOWED_USERS is not blank, every step that changes the session
\* store (records, active mapping or file) is a step of the handler of a
\* request whose user id is listed in the setting, whatever else the
\* setting holds.
C39_OnlyListedUsersAct == [][C39_Step]_vars
\* ====================================================== SessionStore claims, IV
\* the record d of the sessions file is readable and not due for removal
C40_Kept(d) == DictOk(d) /\ ~Stale(from_dict(d), now')
C40_Step ==
    \A i \in 1..Len(disk.data) : C40_Kept(disk.data[i]) =>
        \E j \in 1..Len(disk'.data) :
            /\ DictOk(disk'.data[j])
            /\ disk'.data[j].token = disk.data[i].token
\* C40: no step of a process, whether or not its load of the sessions file
\* failed entirely or partway, rewrites the file without a record the file
\* held before the step, other than a record the clean-up removes.
C40_LoadFailureLosesNothing == [][C40_Step]_vars
====
